---- MODULE Spec2Model ----
(***************************************************************************)
(* A model of the zelang compiler core: the recursive-descent parser       *)
(* (pkg/parser/parser.go) over the token stream of pkg/lexer, and the code *)
(* generators (pkg/codegen/c_generator.go and the template generator).     *)
(*                                                                         *)
(* The parser is modelled small-step: one action per straight-line segment *)
(* of a parse routine and one per loop iteration, so that termination and  *)
(* the position of the cursor after each routine are properties of the     *)
(* behaviours.  The generator is modelled call by call: one action is one  *)
(* whole call of Generate on a generator object.                           *)
(***************************************************************************)
EXTENDS Integers, Sequences, FiniteSets, TLC

VARIABLES
    \* ---- parser (Parser struct and the locals of its routines) ----
    tokens,         \* the token stream the lexer yields, EOF excluded
    pos,            \* index of curToken in the stream; peekToken is at pos+1
    pc,             \* the parser's position in its code
    ctx,            \* who called parseDecorators: "stmt" or "field"
    errors,         \* Parser.errors
    statements,     \* program.Statements of the running ParseProgram
    iterStart,      \* pos at the start of the current top-level iteration
    decorators,     \* local `decorators` of parseDecorators (and its result)
    decorator,      \* local `decorator` of parseDecorators
    stmtDecorators, \* local `decorators` of parseDecoratedStatement
    decl,           \* the declaration a routine is building
    braceCount,     \* local braceCount of the body-skipping loops
    \* ---- code generator (CGenerator and the calls made on it) ----
    program,        \* the Program the compilation is about
    gen,            \* the CGenerator object: structs, pages, handlers, hasWeb
    calls,          \* how many Generate calls the object has served
    lastCall,       \* the last Generate call: its Program, the object's state
                    \* when it started, and the text it returned
    prevCall,       \* the Generate call before the last one
    tgen,           \* the TemplateGenerator object
    \* ---- the generators' helper functions, applied on their own ----
    helperInput,    \* the struct or field a helper is applied to
    helperResult,   \* what the two generators' copies of the helper returned
    \* ---- lexer (Lexer struct and the calls made on it) ----
    input,          \* Lexer.input, a sequence of characters
    lexer,          \* position, readPosition, ch, line, column
    tok             \* what the last NextToken call returned

pvars == <<tokens, pos, pc, ctx, errors, statements, iterStart, decorators,
           decorator, stmtDecorators, decl, braceCount>>

gvars == <<program, gen, calls, lastCall, prevCall, tgen>>

hvars == <<helperInput, helperResult>>

lvars == <<input, lexer, tok>>

vars == <<pvars, gvars, hvars, lvars>>

----------------------------------------------------------------------------
(* Token kinds: the TokenType constants of the lexer package.              *)

EOF == "EOF"
ILLEGAL == "ILLEGAL"
IDENT == "IDENT"
INT == "INT"
FLOAT == "FLOAT"
STRING_LIT == "STRING"
STRUCT == "STRUCT"
INT_TYPE == "INT_TYPE"
FLOAT_TYPE == "FLOAT_TYPE"
STRING_TYPE == "STRING_TYPE"
BOOL_TYPE == "BOOL_TYPE"
DATE == "DATE"
DATETIME == "DATETIME"
VOID == "VOID"
PAGE == "PAGE"
HANDLER == "HANDLER"
COMMA == ","
SEMICOLON == ";"
COLON == ":"
LPAREN == "("
RPAREN == ")"
LBRACE == "{"
RBRACE == "}"
LBRACKET == "["
RBRACKET == "]"
AT == "@"

(* Bounds of the token streams explored.                                   *)
MaxFree == 2

(* The token kinds the free part of a stream is drawn from: one kind for   *)
(* every case any parser branch tells apart.                               *)
FreeKinds ==
    {AT, IDENT, STRING_LIT, COLON, COMMA, LPAREN, RPAREN, LBRACE, RBRACE,
     LBRACKET, RBRACKET, SEMICOLON, STRUCT, PAGE, HANDLER, INT_TYPE, VOID,
     DATE, ILLEGAL}

(* Openings that put the parser inside each of its routines and loops; any *)
(* sequence of at most MaxFree tokens follows them.                        *)
Openings ==
    { <<>>,
      <<STRUCT, IDENT, LBRACE>>,
      <<STRUCT, IDENT, LBRACE, INT_TYPE, IDENT>>,
      <<STRUCT, IDENT, LBRACE, INT_TYPE, IDENT, SEMICOLON>>,
      <<STRUCT, IDENT, LBRACE, INT_TYPE, IDENT, INT_TYPE, IDENT, SEMICOLON>>,
      <<STRUCT, IDENT, LBRACE, INT_TYPE, IDENT, INT_TYPE, IDENT, SEMICOLON,
        INT_TYPE, IDENT, SEMICOLON>>,
      <<STRUCT, IDENT, LBRACE, AT, IDENT>>,
      <<AT, IDENT, LPAREN>>,
      <<AT, IDENT, LPAREN, STRING_LIT, RPAREN>>,
      <<PAGE, IDENT, LBRACE>>,
      <<HANDLER, IDENT, LPAREN>>,
      <<HANDLER, IDENT, LPAREN, IDENT, IDENT, RPAREN, LBRACE>>,
      <<VOID, IDENT, LPAREN, RPAREN, LBRACE>>,
      <<INT_TYPE, IDENT>>,
      <<STRUCT, IDENT, LBRACE, INT_TYPE, IDENT, RBRACE, INT_TYPE, IDENT, SEMICOLON>>,
      <<AT, IDENT, AT, IDENT, LPAREN>>,
      <<AT, IDENT, LPAREN, STRING_LIT, COMMA, IDENT, COLON, STRING_LIT, RPAREN,
        AT, IDENT, LPAREN>>,
      <<AT, IDENT, AT, IDENT, HANDLER, IDENT, LPAREN, INT_TYPE, IDENT, COMMA,
        IDENT, IDENT, RPAREN, LBRACE, LBRACE, RBRACE>> }

KindSeqs(n) == UNION { [1..k -> FreeKinds] : k \in 0..n }

(* A Token: its kind, its text and its position.  The text of the k-th     *)
(* token is written k (every token has its own text), the tokens sit on    *)
(* one line, and the k-th token starts at column k.                        *)
Token(kind, k) == [Type |-> kind, Literal |-> k, Line |-> 1, Column |-> k]

TokenStream(kinds) == [k \in 1..Len(kinds) |-> Token(kinds[k], k)]

TokenStreams == { TokenStream(o \o f) : o \in Openings, f \in KindSeqs(MaxFree) }

(* What Lexer.NextToken returns for the k-th call: the k-th token, and the *)
(* end-of-input token with empty text for every call after the last one.   *)
NextToken(k) ==
    IF k <= Len(tokens) THEN tokens[k]
    ELSE [Type |-> EOF, Literal |-> 0, Line |-> 1, Column |-> Len(tokens) + 1]

curToken == NextToken(pos)
peekToken == NextToken(pos + 1)

curTokenIs(t) == curToken.Type = t
peekTokenIs(t) == peekToken.Type = t

isType(t) == t \in {INT_TYPE, FLOAT_TYPE, STRING_TYPE, BOOL_TYPE, DATE, DATETIME, IDENT}

(* peekError's diagnostic, for the token at stream index k being the peek. *)
peekError(t, k) ==
    [Line |-> NextToken(k).Line, Column |-> NextToken(k).Column,
     Msg |-> "expected next token to be", Expected |-> t, Got |-> NextToken(k).Type]

(* A diagnostic written at the current token (stream index k).             *)
curError(msg, k) ==
    [Line |-> NextToken(k).Line, Column |-> NextToken(k).Column,
     Msg |-> msg, Expected |-> "", Got |-> ""]

----------------------------------------------------------------------------
(* ast.Node values.  A Go interface value holds a dynamic type and a       *)
(* pointer: NilNode is the nil interface; TypedNil(kind) is an interface   *)
(* holding a nil pointer of that type, which compares unequal to nil.      *)

NilNode == [kind |-> "nil", isNil |-> TRUE, val |-> <<>>]
TypedNil(kind) == [kind |-> kind, isNil |-> TRUE, val |-> <<>>]
NodeOf(kind, v) == [kind |-> kind, isNil |-> FALSE, val |-> v]

NoDecl == [kind |-> "none"]

(* codegen.New(): empty accumulators, web mode off, nothing written.       *)
New ==
    [structs |-> <<>>, pages |-> <<>>, handlers |-> <<>>, hasWeb |-> FALSE,
     output |-> <<>>]

NoCall == [prog |-> <<>>, start |-> New, out |-> <<>>]

(* NewTemplateGenerator(): the same working state, and the parsed          *)
(* templates, which never change.                                          *)
NewTemplateGenerator ==
    [structs |-> <<>>, pages |-> <<>>, handlers |-> <<>>, hasWeb |-> FALSE]

NoToken == [Type |-> "none", Literal |-> <<>>, Line |-> 0, Column |-> 0]

(* No lexer has been constructed.                                          *)
IdleLexer ==
    /\ input = <<>>
    /\ lexer = [position |-> 0, readPosition |-> 0, ch |-> "NUL", line |-> 1, column |-> 0]
    /\ tok = NoToken

NoHelper == [kind |-> "none", n |-> 0]

----------------------------------------------------------------------------
(* The parser.                                                             *)

(* p.nextToken(): the cursor after one more token is read.                 *)
nextToken(k) == k + 1

Lit(k) == NextToken(k).Literal
KindAt(k) == NextToken(k).Type

(* `stmt != nil` of ParseProgram: the comparison of an interface value     *)
(* with nil, true of every value but the nil interface itself.             *)
notNil(stmt) == stmt # NilNode

(* The loop tail without the trailing nextToken.                           *)
FinishStatementNoAdvance(stmt, k) ==
    /\ statements' = IF stmt # NilNode THEN Append(statements, stmt) ELSE statements
    /\ pos' = k
    /\ pc' = "top"

(* The tail of one iteration of ParseProgram's loop, run when              *)
(* parseStatement has returned `stmt` with the cursor at k: the statement  *)
(* is appended when it is not nil, and one more token is read.             *)
FinishStatement(stmt, k) ==
    /\ statements' = IF notNil(stmt) THEN Append(statements, stmt) ELSE statements
    /\ pos' = nextToken(k)
    /\ pc' = "top"

(* A routine reached from parseStatement or from parseDecoratedStatement.  *)
AtStatement(kind) ==
    /\ \/ pc = "top"
       \/ pc = "afterDecorators" /\ ctx = "stmt"
    /\ curTokenIs(kind)

(* The decorators parseDecoratedStatement holds for the declaration.       *)
HeldDecorators == IF pc = "top" THEN <<>> ELSE decorators

StartOfIteration == IF pc = "top" THEN pos ELSE iterStart

FunctionStarts == {INT_TYPE, FLOAT_TYPE, STRING_TYPE, BOOL_TYPE, VOID}

ParseProgramDone ==
    /\ pc = "top"
    /\ curTokenIs(EOF)
    /\ pc' = "done"
    /\ UNCHANGED <<gvars, hvars, lvars>>
    /\ UNCHANGED <<tokens, pos, ctx, errors, statements, iterStart, decorators,
                   decorator, stmtDecorators, decl, braceCount>>

(* parseStatement's default case: no node.                                 *)
ParseStatementDefault ==
    /\ pc = "top"
    /\ curToken.Type \notin ({EOF, AT, STRUCT, PAGE, HANDLER} \cup FunctionStarts)
    /\ FinishStatement(NilNode, pos)
    /\ iterStart' = pos
    /\ UNCHANGED <<gvars, hvars, lvars>>
    /\ UNCHANGED <<tokens, ctx, errors, decorators, decorator, stmtDecorators,
                   decl, braceCount>>

(* parseDecoratedStatement: calls parseDecorators.                         *)
ParseDecoratedStatement ==
    /\ pc = "top"
    /\ curTokenIs(AT)
    /\ pc' = "decorators"
    /\ ctx' = "stmt"
    /\ decorators' = <<>>
    /\ iterStart' = pos
    /\ UNCHANGED <<gvars, hvars, lvars>>
    /\ UNCHANGED <<tokens, pos, errors, statements, decorator, stmtDecorators,
                   decl, braceCount>>

(* parseDecorators: the loop is left because the current token is not @.   *)
DecoratorsReturn ==
    /\ pc = "decorators"
    /\ ~curTokenIs(AT)
    /\ pc' = "afterDecorators"
    /\ UNCHANGED <<gvars, hvars, lvars>>
    /\ UNCHANGED <<tokens, pos, ctx, errors, statements, iterStart, decorators,
                   decorator, stmtDecorators, decl, braceCount>>

(* parseDecorators: one iteration up to the argument list.                 *)
ParseDecorator ==
    /\ pc = "decorators"
    /\ curTokenIs(AT)
    /\ LET c1 == nextToken(pos)
           c2 == nextToken(c1)
           d  == [Name |-> Lit(c1), Args |-> <<>>, KVArgs |-> <<>>]
       IN  IF KindAt(c1) # IDENT
           THEN /\ pos' = c1
                /\ pc' = "afterDecorators"
                /\ UNCHANGED <<decorators, decorator>>
           ELSE IF KindAt(c2) = LPAREN
           THEN /\ pos' = nextToken(c2)
                /\ pc' = "decArgs"
                /\ decorator' = d
                /\ UNCHANGED decorators
           ELSE /\ pos' = c2
                /\ pc' = "decorators"
                /\ decorator' = d
                /\ decorators' = Append(decorators, d)
    /\ UNCHANGED <<gvars, hvars, lvars>>
    /\ UNCHANGED <<tokens, ctx, errors, statements, iterStart, stmtDecorators,
                   decl, braceCount>>

(* The assignment to KVArgs left out.                                      *)
MapPutDropped(m, key, value) == m

(* decorator.KVArgs[arg] = value                                           *)
MapPut(m, key, value) ==
    [x \in DOMAIN m \cup {key} |-> IF x = key THEN value ELSE m[x]]

(* parseDecorators: one iteration of the argument loop.                    *)
ParseDecoratorArg ==
    /\ pc = "decArgs"
    /\ ~curTokenIs(RPAREN) /\ ~curTokenIs(EOF)
    /\ IF curToken.Type \in {STRING_LIT, INT, FLOAT, IDENT}
       THEN LET arg == curToken.Literal
                c1  == nextToken(pos)
                kv  == KindAt(c1) = COLON
                c2  == IF kv THEN nextToken(nextToken(c1)) ELSE c1
                c3  == IF KindAt(c2) = COMMA THEN nextToken(c2) ELSE c2
            IN  /\ decorator' =
                       IF kv
                       THEN [decorator EXCEPT
                               !.KVArgs = MapPut(@, arg, Lit(nextToken(c1)))]
                       ELSE [decorator EXCEPT !.Args = Append(@, arg)]
                /\ pos' = c3
       ELSE /\ pos' = nextToken(pos)
            /\ UNCHANGED decorator
    /\ UNCHANGED <<gvars, hvars, lvars>>
    /\ UNCHANGED <<tokens, pc, ctx, errors, statements, iterStart, decorators,
                   stmtDecorators, decl, braceCount>>

(* parseDecorators: after the argument loop.                               *)
DecoratorArgsEnd ==
    /\ pc = "decArgs"
    /\ curTokenIs(RPAREN) \/ curTokenIs(EOF)
    /\ IF ~curTokenIs(RPAREN)
       THEN /\ errors' = Append(errors,
                   curError("expected ')' after decorator arguments", pos))
            /\ pc' = "afterDecorators"
            /\ UNCHANGED <<pos, decorators>>
       ELSE /\ pos' = nextToken(pos)
            /\ decorators' = Append(decorators, decorator)
            /\ pc' = "decorators"
            /\ UNCHANGED errors
    /\ UNCHANGED <<gvars, hvars, lvars>>
    /\ UNCHANGED <<tokens, ctx, statements, iterStart, decorator,
                   stmtDecorators, decl, braceCount>>

(* parseDecoratedStatement's default case: the decorators are dropped.     *)
DecoratedDefault ==
    /\ pc = "afterDecorators"
    /\ ctx = "stmt"
    /\ curToken.Type \notin {STRUCT, PAGE, HANDLER}
    /\ FinishStatement(NilNode, pos)
    /\ UNCHANGED <<gvars, hvars, lvars>>
    /\ UNCHANGED <<tokens, ctx, errors, iterStart, decorators, decorator,
                   stmtDecorators, decl, braceCount>>

(* parseStructDecl up to its field loop.                                   *)
ParseStructDecl ==
    /\ AtStatement(STRUCT)
    /\ iterStart' = StartOfIteration
    /\ stmtDecorators' = HeldDecorators
    /\ IF KindAt(pos + 1) # IDENT
       THEN /\ errors' = Append(errors, peekError(IDENT, pos + 1))
            /\ FinishStatement(TypedNil("StructDecl"), pos)
            /\ UNCHANGED decl
       ELSE IF KindAt(pos + 2) # LBRACE
       THEN /\ errors' = Append(errors, peekError(LBRACE, pos + 2))
            /\ FinishStatement(TypedNil("StructDecl"), nextToken(pos))
            /\ UNCHANGED decl
       ELSE /\ decl' = [kind |-> "StructDecl", Name |-> Lit(pos + 1), Fields |-> <<>>]
            /\ pos' = nextToken(nextToken(nextToken(pos)))
            /\ pc' = "fields"
            /\ UNCHANGED <<errors, statements>>
    /\ UNCHANGED <<gvars, hvars, lvars>>
    /\ UNCHANGED <<tokens, ctx, decorators, decorator, braceCount>>

(* parseStructDecl: the field loop is left.                                *)
StructDeclEnd ==
    /\ pc = "fields"
    /\ curTokenIs(RBRACE) \/ curTokenIs(EOF)
    /\ FinishStatement(
           NodeOf("StructDecl",
                  [Name |-> decl.Name, Decorators |-> stmtDecorators,
                   Fields |-> decl.Fields]), pos)
    /\ UNCHANGED <<gvars, hvars, lvars>>
    /\ UNCHANGED <<tokens, ctx, errors, iterStart, decorators, decorator,
                   stmtDecorators, decl, braceCount>>

(* parseFieldDecl: the field starts with @, parseDecorators is called.     *)
FieldDecorators ==
    /\ pc = "fields"
    /\ curTokenIs(AT)
    /\ pc' = "decorators"
    /\ ctx' = "field"
    /\ decorators' = <<>>
    /\ UNCHANGED <<gvars, hvars, lvars>>
    /\ UNCHANGED <<tokens, pos, errors, statements, iterStart, decorator,
                   stmtDecorators, decl, braceCount>>

(* parseFieldDecl from "Parse type" on, with the cursor at k and the       *)
(* field's decorators decs: the field or none, the diagnostics written     *)
(* and the cursor at the return.                                           *)
FieldDeclResult(k, decs) ==
    LET none(c, es) == [ok |-> FALSE, field |-> <<>>, cursor |-> c, errs |-> es]
        arr  == KindAt(nextToken(k)) = LBRACKET
        kn   == IF arr THEN nextToken(nextToken(nextToken(k))) ELSE nextToken(k)
        ks   == nextToken(kn)
    IN  IF ~isType(KindAt(k)) THEN none(k, <<>>)
        ELSE IF arr /\ KindAt(nextToken(k) + 1) # RBRACKET
        THEN none(nextToken(k), <<peekError(RBRACKET, nextToken(k) + 1)>>)
        ELSE IF KindAt(kn) # IDENT THEN none(kn, <<>>)
        ELSE IF KindAt(ks) # SEMICOLON
        THEN none(ks, <<curError("expected ';' after field declaration", ks)>>)
        ELSE [ok |-> TRUE,
              field |-> [Name |-> Lit(kn), Type |-> Lit(k), IsArray |-> arr,
                         Decorators |-> decs],
              cursor |-> ks, errs |-> <<>>]

(* One iteration of parseStructDecl's field loop: parseFieldDecl (after    *)
(* its decorators, if any), the append and the loop's nextToken.           *)
ParseFieldDecl ==
    /\ \/ pc = "fields" /\ ~curTokenIs(RBRACE) /\ ~curTokenIs(EOF) /\ ~curTokenIs(AT)
       \/ pc = "afterDecorators" /\ ctx = "field"
    /\ LET r == FieldDeclResult(pos, IF pc = "fields" THEN <<>> ELSE decorators)
       IN  /\ decl' = IF r.ok THEN [decl EXCEPT !.Fields = Append(@, r.field)] ELSE decl
           /\ errors' = errors \o r.errs
           /\ pos' = nextToken(r.cursor)
    /\ pc' = "fields"
    /\ UNCHANGED <<gvars, hvars, lvars>>
    /\ UNCHANGED <<tokens, ctx, statements, iterStart, decorators, decorator,
                   stmtDecorators, braceCount>>

(* parsePageDecl up to its body loop.                                      *)
ParsePageDecl ==
    /\ AtStatement(PAGE)
    /\ iterStart' = StartOfIteration
    /\ stmtDecorators' = HeldDecorators
    /\ IF KindAt(pos + 1) # IDENT
       THEN /\ errors' = Append(errors, peekError(IDENT, pos + 1))
            /\ FinishStatement(TypedNil("PageDecl"), pos)
            /\ UNCHANGED decl
       ELSE IF KindAt(pos + 2) # LBRACE
       THEN /\ errors' = Append(errors, peekError(LBRACE, pos + 2))
            /\ FinishStatement(TypedNil("PageDecl"), nextToken(pos))
            /\ UNCHANGED decl
       ELSE /\ decl' = [kind |-> "PageDecl", Name |-> Lit(pos + 1)]
            /\ pos' = nextToken(nextToken(nextToken(pos)))
            /\ pc' = "pageBody"
            /\ UNCHANGED <<errors, statements>>
    /\ UNCHANGED <<gvars, hvars, lvars>>
    /\ UNCHANGED <<tokens, ctx, decorators, decorator, braceCount>>

(* parsePageDecl: one iteration of the body loop.                          *)
PageBodySkip ==
    /\ pc = "pageBody"
    /\ ~curTokenIs(RBRACE) /\ ~curTokenIs(EOF)
    /\ pos' = nextToken(pos)
    /\ UNCHANGED <<gvars, hvars, lvars>>
    /\ UNCHANGED <<tokens, pc, ctx, errors, statements, iterStart, decorators,
                   decorator, stmtDecorators, decl, braceCount>>

PageDeclEnd ==
    /\ pc = "pageBody"
    /\ curTokenIs(RBRACE) \/ curTokenIs(EOF)
    /\ FinishStatement(
           NodeOf("PageDecl", [Name |-> decl.Name, Decorators |-> stmtDecorators]),
           pos)
    /\ UNCHANGED <<gvars, hvars, lvars>>
    /\ UNCHANGED <<tokens, ctx, errors, iterStart, decorators, decorator,
                   stmtDecorators, decl, braceCount>>

(* braceCount after the loop body has looked at a token of kind t.         *)
CountBrace(n, t) ==
    IF t = LBRACE THEN n + 1 ELSE IF t = RBRACE THEN n - 1 ELSE n

(* The loop stopping at any closing brace, as parsePageDecl's does.        *)
SkipStopsAtFirstClose(n, t) == t = EOF \/ t = RBRACE

(* The body-skipping loop stops at this token: end of input, or a closing  *)
(* brace that brings braceCount to 0.                                      *)
SkipStops(n, t) == t = EOF \/ (t = RBRACE /\ CountBrace(n, t) = 0)

(* parseFunctionDecl up to its skipping loop.                              *)
ParseFunctionDecl ==
    /\ pc = "top"
    /\ curToken.Type \in FunctionStarts
    /\ iterStart' = pos
    /\ IF KindAt(nextToken(pos)) # IDENT
       THEN /\ FinishStatement(TypedNil("FunctionDecl"), nextToken(pos))
            /\ UNCHANGED <<decl, braceCount>>
       ELSE /\ decl' = [kind |-> "FunctionDecl", Name |-> Lit(nextToken(pos)),
                        ReturnType |-> Lit(pos)]
            /\ braceCount' = 0
            /\ pos' = nextToken(pos)
            /\ pc' = "funcBody"
            /\ UNCHANGED statements
    /\ UNCHANGED <<gvars, hvars, lvars>>
    /\ UNCHANGED <<tokens, ctx, errors, decorators, decorator, stmtDecorators>>

FunctionBodySkip ==
    /\ pc = "funcBody"
    /\ ~SkipStops(braceCount, curToken.Type)
    /\ braceCount' = CountBrace(braceCount, curToken.Type)
    /\ pos' = nextToken(pos)
    /\ UNCHANGED <<gvars, hvars, lvars>>
    /\ UNCHANGED <<tokens, pc, ctx, errors, statements, iterStart, decorators,
                   decorator, stmtDecorators, decl>>

FunctionDeclEnd ==
    /\ pc = "funcBody"
    /\ SkipStops(braceCount, curToken.Type)
    /\ braceCount' = CountBrace(braceCount, curToken.Type)
    /\ FinishStatement(
           NodeOf("FunctionDecl", [Name |-> decl.Name, ReturnType |-> decl.ReturnType]),
           pos)
    /\ UNCHANGED <<gvars, hvars, lvars>>
    /\ UNCHANGED <<tokens, ctx, errors, iterStart, decorators, decorator,
                   stmtDecorators, decl>>

(* parseHandlerDecl up to its parameter loop.                              *)
ParseHandlerDecl ==
    /\ AtStatement(HANDLER)
    /\ iterStart' = StartOfIteration
    /\ stmtDecorators' = HeldDecorators
    /\ LET c1 == nextToken(pos)
           c2 == nextToken(c1)
       IN  IF KindAt(c1) # IDENT
           THEN /\ FinishStatement(TypedNil("HandlerDecl"), c1)
                /\ UNCHANGED decl
           ELSE IF KindAt(c2) # LPAREN
           THEN /\ FinishStatement(TypedNil("HandlerDecl"), c2)
                /\ UNCHANGED decl
           ELSE /\ decl' = [kind |-> "HandlerDecl", Name |-> Lit(c1),
                            Parameters |-> <<>>]
                /\ pos' = nextToken(c2)
                /\ pc' = "params"
                /\ UNCHANGED statements
    /\ UNCHANGED <<gvars, hvars, lvars>>
    /\ UNCHANGED <<tokens, ctx, errors, decorators, decorator, braceCount>>

(* parseHandlerDecl: one iteration of the parameter loop.                  *)
ParseParameter ==
    /\ pc = "params"
    /\ ~curTokenIs(RPAREN) /\ ~curTokenIs(EOF)
    /\ LET c1 == nextToken(pos)
           named == KindAt(c1) = IDENT
           c2 == IF named THEN nextToken(c1) ELSE c1
           c3 == IF KindAt(c2) = COMMA THEN nextToken(c2) ELSE c2
       IN  /\ decl' = IF named
                      THEN [decl EXCEPT !.Parameters =
                              Append(@, [Name |-> Lit(c1), Type |-> Lit(pos)])]
                      ELSE decl
           /\ pos' = c3
    /\ UNCHANGED <<gvars, hvars, lvars>>
    /\ UNCHANGED <<tokens, pc, ctx, errors, statements, iterStart, decorators,
                   decorator, stmtDecorators, braceCount>>

HandlerNode ==
    NodeOf("HandlerDecl",
           [Name |-> decl.Name, Parameters |-> decl.Parameters,
            Decorators |-> stmtDecorators])

(* parseHandlerDecl: after the parameter loop, up to the skipping loop.    *)
ParametersEnd ==
    /\ pc = "params"
    /\ curTokenIs(RPAREN) \/ curTokenIs(EOF)
    /\ IF ~curTokenIs(RPAREN)
       THEN /\ FinishStatement(TypedNil("HandlerDecl"), pos)
            /\ UNCHANGED braceCount
       ELSE IF KindAt(nextToken(pos)) = LBRACE
       THEN /\ pos' = nextToken(pos)
            /\ braceCount' = 0
            /\ pc' = "handlerBody"
            /\ UNCHANGED statements
       ELSE /\ FinishStatement(HandlerNode, nextToken(pos))
            /\ UNCHANGED braceCount
    /\ UNCHANGED <<gvars, hvars, lvars>>
    /\ UNCHANGED <<tokens, ctx, errors, iterStart, decorators, decorator,
                   stmtDecorators, decl>>

HandlerBodySkip ==
    /\ pc = "handlerBody"
    /\ ~SkipStops(braceCount, curToken.Type)
    /\ braceCount' = CountBrace(braceCount, curToken.Type)
    /\ pos' = nextToken(pos)
    /\ UNCHANGED <<gvars, hvars, lvars>>
    /\ UNCHANGED <<tokens, pc, ctx, errors, statements, iterStart, decorators,
                   decorator, stmtDecorators, decl>>

HandlerDeclEnd ==
    /\ pc = "handlerBody"
    /\ SkipStops(braceCount, curToken.Type)
    /\ braceCount' = CountBrace(braceCount, curToken.Type)
    /\ FinishStatement(HandlerNode, pos)
    /\ UNCHANGED <<gvars, hvars, lvars>>
    /\ UNCHANGED <<tokens, ctx, errors, iterStart, decorators, decorator,
                   stmtDecorators, decl>>

NoDecorator == [Name |-> 0, Args |-> <<>>, KVArgs |-> <<>>]

(* The parser New(l) returns, at the start of ParseProgram.                *)
InitParser ==
    /\ tokens \in TokenStreams
    /\ pos = 1
    /\ pc = "top"
    /\ ctx = "stmt"
    /\ errors = <<>>
    /\ statements = <<>>
    /\ iterStart = 1
    /\ decorators = <<>>
    /\ decorator = NoDecorator
    /\ stmtDecorators = <<>>
    /\ decl = NoDecl
    /\ braceCount = 0
    /\ program = <<>>
    /\ gen = New
    /\ tgen = NewTemplateGenerator
    /\ IdleLexer
    /\ calls = 0
    /\ lastCall = NoCall
    /\ prevCall = NoCall
    /\ helperInput = NoHelper
    /\ helperResult = NoHelper

NextParser ==
    \/ ParseProgramDone
    \/ ParseStatementDefault
    \/ ParseDecoratedStatement
    \/ DecoratorsReturn
    \/ ParseDecorator
    \/ ParseDecoratorArg
    \/ DecoratorArgsEnd
    \/ DecoratedDefault
    \/ ParseStructDecl
    \/ StructDeclEnd
    \/ FieldDecorators
    \/ ParseFieldDecl
    \/ ParsePageDecl
    \/ PageBodySkip
    \/ PageDeclEnd
    \/ ParseFunctionDecl
    \/ FunctionBodySkip
    \/ FunctionDeclEnd
    \/ ParseHandlerDecl
    \/ ParseParameter
    \/ ParametersEnd
    \/ HandlerBodySkip
    \/ HandlerDeclEnd

(* ParseProgram runs to completion once called: the parser is sequential   *)
(* code, so a step that is possible is taken.                              *)
SpecParser == InitParser /\ [][NextParser]_vars /\ WF_vars(NextParser)

----------------------------------------------------------------------------
(* Properties of the parser.                                               *)

NestedLoops == {"fields", "decArgs", "pageBody", "params", "funcBody", "handlerBody"}

(* C1: ParseProgram terminates on every token stream: the run reaches the  *)
(* end of ParseProgram; every iteration of the top-level loop ends with    *)
(* the cursor beyond where the iteration started; and a nested loop whose  *)
(* current token is end-of-input is left by its next step.                 *)
ParseProgramTerminates ==
    /\ <>(pc = "done")
    /\ [][pc' = "top" => pos' > iterStart']_vars
    /\ [][(pc \in NestedLoops /\ curTokenIs(EOF)) => pc' \notin NestedLoops]_vars

(* C1 witness: a parse of malformed input that has ended, after a nested   *)
(* loop ran into the end of input.                                         *)
ParseEndedOnMalformedInput ==
    /\ pc = "done"
    /\ errors # <<>>
    /\ pos > Len(tokens) + 1

(* C2: every element of program.Statements is a constructed declaration,   *)
(* never an absent one.                                                    *)
NoAbsentDeclaration ==
    \A i \in 1..Len(statements) : ~statements[i].isNil

(* The input of C3: a struct whose first field `int a` is not followed by  *)
(* a semicolon.                                                            *)
MissingSemicolonCase ==
    /\ KindAt(1) = STRUCT /\ KindAt(2) = IDENT /\ KindAt(3) = LBRACE
    /\ KindAt(4) = INT_TYPE /\ KindAt(5) = IDENT /\ KindAt(6) # SEMICOLON

PrimitiveTypes == {INT_TYPE, FLOAT_TYPE, STRING_TYPE, BOOL_TYPE, DATE, DATETIME}

WellFormedFieldAt(k) ==
    /\ KindAt(k) \in PrimitiveTypes
    /\ KindAt(k + 1) = IDENT
    /\ KindAt(k + 2) = SEMICOLON

(* The well-formed fields `type name ;` written back to back from index k. *)
RECURSIVE LaterFields(_)
LaterFields(k) ==
    IF WellFormedFieldAt(k) THEN {k} \cup LaterFields(k + 3) ELSE {}

HasField(fields, name, type) ==
    \E i \in 1..Len(fields) : fields[i].Name = name /\ fields[i].Type = type

(* C3: after a field without its semicolon, a diagnostic carries the       *)
(* position where the semicolon was expected, the field is left out, and   *)
(* every well-formed field that follows it is in the StructDecl.           *)
LaterFieldsSurviveMissingSemicolon ==
    (pc = "done" /\ MissingSemicolonCase) =>
        /\ \E i \in 1..Len(errors) :
              /\ errors[i].Line = NextToken(6).Line
              /\ errors[i].Column = NextToken(6).Column
        /\ statements # <<>>
        /\ statements[1].kind = "StructDecl"
        /\ ~statements[1].isNil
        /\ ~HasField(statements[1].val.Fields, Lit(5), Lit(4))
        /\ \A k \in LaterFields(6) :
              HasField(statements[1].val.Fields, Lit(k + 1), Lit(k))

(* What the code does keep of C3: the diagnostic and the omission.         *)
MissingSemicolonReported ==
    (pc = "done" /\ MissingSemicolonCase) =>
        /\ \E i \in 1..Len(errors) :
              /\ errors[i].Line = NextToken(6).Line
              /\ errors[i].Column = NextToken(6).Column
              /\ errors[i].Msg = "expected ';' after field declaration"
        /\ statements # <<>>
        /\ statements[1].kind = "StructDecl"
        /\ ~statements[1].isNil
        /\ ~HasField(statements[1].val.Fields, Lit(5), Lit(4))

----------------------------------------------------------------------------
(* Text.  A string the generators take apart (a struct or page name, a     *)
(* decorator argument) is a sequence of one-character strings; every other *)
(* string is atomic.                                                       *)

UpperCase == <<"A", "B", "C", "D", "E", "F", "G", "H", "I", "J", "K", "L", "M",
               "N", "O", "P", "Q", "R", "S", "T", "U", "V", "W", "X", "Y", "Z">>
LowerCase == <<"a", "b", "c", "d", "e", "f", "g", "h", "i", "j", "k", "l", "m",
               "n", "o", "p", "q", "r", "s", "t", "u", "v", "w", "x", "y", "z">>

LowerChar(c) ==
    IF \E i \in DOMAIN UpperCase : UpperCase[i] = c
    THEN LowerCase[CHOOSE i \in DOMAIN UpperCase : UpperCase[i] = c]
    ELSE c

(* strings.ToLower                                                         *)
ToLower(str) == [i \in 1..Len(str) |-> LowerChar(str[i])]

RECURSIVE TrimLeft(_, _)
TrimLeft(str, c) ==
    IF str # <<>> /\ Head(str) = c THEN TrimLeft(Tail(str), c) ELSE str

RECURSIVE TrimRight(_, _)
TrimRight(str, c) ==
    IF str # <<>> /\ str[Len(str)] = c
    THEN TrimRight(SubSeq(str, 1, Len(str) - 1), c)
    ELSE str

(* strings.Trim(str, cutset) for a cutset of one character                 *)
Trim(str, c) == TrimRight(TrimLeft(str, c), c)

Quote == "\""

(* strings.Title(name), kept as the name it capitalises.                   *)
Title(name) == <<"Title", name>>

Map(f(_), seq) == [i \in 1..Len(seq) |-> f(seq[i])]

RECURSIVE Flatten(_)
Flatten(seqs) == IF seqs = <<>> THEN <<>> ELSE Head(seqs) \o Flatten(Tail(seqs))

(* A field carries a decorator with one of these names.                    *)
HasDecorator(field, names) ==
    \E i \in 1..Len(field.Decorators) : field.Decorators[i].Name \in names

----------------------------------------------------------------------------
(* CGenerator (c_generator.go).  The emitted text is kept as the sequence  *)
(* of its sections, each a record of what the section's text varies in;    *)
(* the fixed text around them is left out.                                 *)

(* mapType without the date case.                                          *)
mapTypeDateUnmapped(zlType) ==
    CASE zlType = "int" -> "int64_t"
      [] zlType = "float" -> "double"
      [] zlType = "string" -> "char*"
      [] zlType = "bool" -> "int"
      [] zlType = "datetime" -> "char*"
      [] OTHER -> zlType

mapType(zlType) ==
    CASE zlType = "int" -> "int64_t"
      [] zlType = "float" -> "double"
      [] zlType = "string" -> "char*"
      [] zlType = "bool" -> "int"
      [] zlType \in {"date", "datetime"} -> "char*"
      [] OTHER -> zlType

mapSQLType(zlType) ==
    CASE zlType = "int" -> "INTEGER"
      [] zlType = "float" -> "REAL"
      [] zlType = "string" -> "TEXT"
      [] zlType = "bool" -> "INTEGER"
      [] zlType \in {"date", "datetime"} -> "TEXT"
      [] OTHER -> "TEXT"

(* getTableName returning the decorator argument as written.               *)
RECURSIVE tableNameUntrimmed(_, _)
tableNameUntrimmed(s, i) ==
    IF i > Len(s.Decorators) THEN ToLower(s.Name) \o <<"s">>
    ELSE IF s.Decorators[i].Name = "table" /\ Len(s.Decorators[i].Args) > 0
    THEN s.Decorators[i].Args[1]
    ELSE tableNameUntrimmed(s, i + 1)

(* The loop of getTableName from decorator i on.                           *)
RECURSIVE tableNameFrom(_, _)
tableNameFrom(s, i) ==
    IF i > Len(s.Decorators) THEN ToLower(s.Name) \o <<"s">>
    ELSE IF s.Decorators[i].Name = "table" /\ Len(s.Decorators[i].Args) > 0
    THEN Trim(s.Decorators[i].Args[1], Quote)
    ELSE tableNameFrom(s, i + 1)

getTableName(s) == tableNameFrom(s, 1)

(* One pass of getFieldConstraints' loop body: what decorator `name` adds. *)
constraintOf(name) ==
    CASE name = "primary" -> <<" PRIMARY KEY">>
      [] name = "autoincrement" -> <<" AUTOINCREMENT">>
      [] name = "required" -> <<" NOT NULL">>
      [] name = "unique" -> <<" UNIQUE">>
      [] OTHER -> <<>>

(* getFieldConstraints putting each keyword in front.                      *)
RECURSIVE constraintsPrepended(_, _, _)
constraintsPrepended(decs, i, constraints) ==
    IF i > Len(decs) THEN constraints
    ELSE constraintsPrepended(decs, i + 1, constraintOf(decs[i].Name) \o constraints)

RECURSIVE constraintsFrom(_, _, _)
constraintsFrom(decs, i, constraints) ==
    IF i > Len(decs) THEN constraints
    ELSE constraintsFrom(decs, i + 1, constraints \o constraintOf(decs[i].Name))

(* The constraint suffix, as the sequence of the pieces concatenated.      *)
getFieldConstraints(field) == constraintsFrom(field.Decorators, 1, <<>>)

NotArray(field) == ~field.IsArray

generateHeaders(g) ==
    <<[sec |-> "headers",
       includes |-> <<"stdio.h", "stdlib.h", "string.h", "sqlite3.h">>
                    \o (IF g.hasWeb THEN <<"ctype.h", "microhttpd.h">> ELSE <<>>),
       globals |-> <<"db">> \o (IF g.hasWeb THEN <<"http_daemon">> ELSE <<>>)]>>

structMembers(field) ==
    IF field.IsArray
    THEN <<[name |-> field.Name, ctype |-> mapType(field.Type), role |-> "pointer"],
           [name |-> field.Name, ctype |-> "int", role |-> "count"]>>
    ELSE <<[name |-> field.Name, ctype |-> mapType(field.Type), role |-> "value"]>>

generateStruct(s) ==
    <<[sec |-> "struct", struct |-> s.Name,
       members |-> Flatten(Map(structMembers, s.Fields))]>>

initTableColumn(field) ==
    [name |-> field.Name, sqlType |-> mapSQLType(field.Type),
     constraints |-> getFieldConstraints(field)]

(* generateInitTable without the IsArray test.                             *)
everyField(s) == s.Fields

(* The fields generateInitTable lists.                                     *)
initTableFields(s) == SelectSeq(s.Fields, NotArray)

generateInitTable(s, tableName) ==
    <<[sec |-> "init_table", struct |-> s.Name, table |-> tableName,
       columns |-> Map(initTableColumn, initTableFields(s))]>>

(* nonAutoFields keeping the timestamp fields.                             *)
createParamFieldTimestamped(field) ==
    ~field.IsArray /\ ~HasDecorator(field, {"autoincrement"})

(* generateCreate's nonAutoFields.                                         *)
createParamField(field) ==
    ~field.IsArray /\ ~HasDecorator(field, {"autoincrement", "timestamp"})

nonAutoFields(s) == SelectSeq(s.Fields, createParamField)

(* The bind statements: one per field whose C type the switch knows.       *)
bindOf(ctype) ==
    CASE ctype = "int64_t" -> "sqlite3_bind_int64"
      [] ctype = "double" -> "sqlite3_bind_double"
      [] ctype = "char*" -> "sqlite3_bind_text"
      [] OTHER -> "none"

Emitted(x) == x.fn # "none"

createBinds(fields) ==
    SelectSeq([i \in 1..Len(fields) |->
                 [index |-> i, name |-> fields[i].Name,
                  fn |-> bindOf(mapType(fields[i].Type))]],
              Emitted)

createPopulate(field) ==
    [name |-> field.Name,
     from |-> IF (field.Name = "id" \/ HasDecorator(field, {"primary"}))
                 /\ HasDecorator(field, {"autoincrement"})
              THEN <<"last_insert_id">>
              ELSE IF mapType(field.Type) = "char*"
              THEN <<"strdup", field.Name>>
              ELSE <<"variable", field.Name>>]

createParam(field) == [ctype |-> mapType(field.Type), name |-> field.Name]
fieldName(field) == field.Name

generateCreate(s, tableName) ==
    <<[sec |-> "create", struct |-> s.Name, table |-> tableName,
       params |-> Map(createParam, nonAutoFields(s)),
       insertColumns |-> Map(fieldName, nonAutoFields(s)),
       placeholders |-> Len(nonAutoFields(s)),
       binds |-> createBinds(nonAutoFields(s)),
       populate |-> Map(createPopulate, SelectSeq(s.Fields, NotArray))]>>

readOf(ctype) ==
    CASE ctype = "int64_t" -> "sqlite3_column_int64"
      [] ctype = "double" -> "sqlite3_column_double"
      [] ctype = "char*" -> "sqlite3_column_text"
      [] OTHER -> "none"

(* The column reads of generateFind and generateAll: colIndex counts every *)
(* non-array field, a read is written for the C types the switch knows.    *)
columnReads(s) ==
    LET fields == SelectSeq(s.Fields, NotArray)
    IN  SelectSeq([i \in 1..Len(fields) |->
                     [name |-> fields[i].Name, colIndex |-> i - 1,
                      fn |-> readOf(mapType(fields[i].Type))]],
                  Emitted)

generateFind(s, tableName) ==
    <<[sec |-> "find", struct |-> s.Name, table |-> tableName,
       reads |-> columnReads(s)]>>

generateAll(s, tableName) ==
    <<[sec |-> "all", struct |-> s.Name, table |-> tableName,
       reads |-> columnReads(s)]>>

generateDelete(s, tableName) ==
    <<[sec |-> "delete", struct |-> s.Name, table |-> tableName]>>

generateCRUD(s) ==
    generateInitTable(s, getTableName(s))
    \o generateCreate(s, getTableName(s))
    \o generateFind(s, getTableName(s))
    \o generateAll(s, getTableName(s))
    \o generateDelete(s, getTableName(s))

structName(s) == s.Name

(* generateMain's sample arguments for the i-th demonstration create.      *)
Samples == <<<<"John Doe", "Class A">>, <<"Jane Smith", "Class B">>,
             <<"Bob Johnson", "Class A">>>>
Tens == <<"10", "20", "30">>

sampleArgs(fields, i) ==
    [j \in 1..Len(fields) |->
        IF mapType(fields[j].Type) = "char*"
        THEN IF j <= Len(Samples[i]) THEN Samples[i][j] ELSE "Sample"
        ELSE Tens[i]]

printOf(ctype) ==
    CASE ctype = "char*" -> "%s"
      [] ctype = "int64_t" -> "%lld"
      [] ctype = "double" -> "%f"
      [] OTHER -> "none"

Printed(x) == x.fmt # "none"
printField(field) == [name |-> field.Name, fmt |-> printOf(mapType(field.Type))]

IsText(field) == ~field.IsArray /\ mapType(field.Type) = "char*"

generateMain(g) ==
    <<[sec |-> "main",
       initTables |-> Map(structName, g.structs),
       demo |->
         IF Len(g.structs) > 0
         THEN LET s == g.structs[1]
              IN  <<[struct |-> s.Name, variable |-> ToLower(s.Name),
                     creates |-> [i \in 1..Len(Samples) |->
                                    sampleArgs(nonAutoFields(s), i)],
                     found |-> SelectSeq(Map(printField, SelectSeq(s.Fields, NotArray)),
                                         Printed),
                     listed |-> SubSeq(Map(fieldName, SelectSeq(s.Fields, IsText)), 1,
                                       IF SelectSeq(s.Fields, IsText) = <<>> THEN 0 ELSE 1)]>>
         ELSE <<>>]>>

cellOf(field) ==
    CASE mapType(field.Type) = "char*" -> "%s"
      [] mapType(field.Type) = "int" -> IF field.Type = "bool" THEN "Yes/No" ELSE "%d"
      [] mapType(field.Type) = "int64_t" -> "%lld"
      [] mapType(field.Type) = "double" -> "%f"
      [] OTHER -> "none"

dataCell(field) == [name |-> field.Name, fmt |-> cellOf(field)]

generateDataListHTML(s) ==
    [table |-> getTableName(s), struct |-> s.Name,
     headers |-> Map(Title, Map(fieldName, SelectSeq(s.Fields, NotArray))),
     cells |-> SelectSeq(Map(dataCell, SelectSeq(s.Fields, NotArray)), Printed)]

(* The fields generateFormHTML writes a control for.                       *)
formField(field) ==
    ~field.IsArray /\ ~HasDecorator(field, {"autoincrement", "primary"})

(* The control generateFormHTML writes for a field.                        *)
formInputKind(field) ==
    IF mapType(field.Type) = "char*"
    THEN IF field.Name = "description" THEN "textarea" ELSE "text"
    ELSE IF field.Type = "bool" THEN "checkbox"
    ELSE "number"

formInput(field) ==
    [name |-> field.Name, label |-> Title(field.Name),
     kind |-> formInputKind(field),
     required |-> formInputKind(field) # "checkbox"]

generateFormHTML(s) ==
    [table |-> getTableName(s),
     inputs |-> Map(formInput, SelectSeq(s.Fields, formField))]

generateHTMLFunctions(g) ==
    <<[sec |-> "html_chrome"]>>
    \o IF Len(g.pages) > 0
       THEN <<[sec |-> "render_page", page |-> ToLower(g.pages[1].Name),
               title |-> g.pages[1].Name,
               dataList |-> IF Len(g.structs) > 0
                            THEN <<generateDataListHTML(g.structs[1])>> ELSE <<>>,
               form |-> IF Len(g.structs) > 0
                        THEN <<generateFormHTML(g.structs[1])>> ELSE <<>>]>>
       ELSE <<>>

(* The form values generateRouteHandler extracts and passes to create.     *)
extractOf(field) ==
    [name |-> field.Name,
     ctype |-> IF mapType(field.Type) = "char*" THEN "char*"
               ELSE IF field.Type = "bool" THEN "int" ELSE "int64_t"]

generateRouteHandler(g) ==
    <<[sec |-> "form_helpers"]>>
    \o IF Len(g.structs) > 0
       THEN LET s == g.structs[1]
                fields == SelectSeq(s.Fields, formField)
            IN  <<[sec |-> "handle_request", struct |-> s.Name,
                   table |-> getTableName(s),
                   extract |-> Map(extractOf, fields),
                   createArgs |-> Map(fieldName, fields),
                   routes |->
                     <<[method |-> "POST", path |-> <<getTableName(s), "/create">>,
                        match |-> "exact", does |-> <<"create", s.Name>>],
                       [method |-> "GET", path |-> <<getTableName(s), "/delete">>,
                        match |-> "prefix", does |-> <<"delete", s.Name>>]>>
                     \o (IF Len(g.pages) > 0
                         THEN <<[method |-> "GET", path |-> <<<<>>, "/">>,
                                 match |-> "exact",
                                 does |-> <<"render", ToLower(g.pages[1].Name)>>]>>
                         ELSE <<>>)]>>
       ELSE <<>>

generateWebMain(g) ==
    <<[sec |-> "web_main", initTables |-> Map(structName, g.structs),
       handler |-> "handle_request"]>>

generateWebServer(g) ==
    generateHTMLFunctions(g) \o generateRouteHandler(g) \o generateWebMain(g)

(* The statement loop of Generate, from statement i on.                    *)
RECURSIVE collect(_, _, _)
collect(g, stmts, i) ==
    IF i > Len(stmts) THEN g
    ELSE collect(
           CASE stmts[i].kind = "StructDecl" ->
                  [g EXCEPT !.structs = Append(@, stmts[i].val)]
             [] stmts[i].kind = "PageDecl" ->
                  [g EXCEPT !.pages = Append(@, stmts[i].val), !.hasWeb = TRUE]
             [] stmts[i].kind = "HandlerDecl" ->
                  [g EXCEPT !.handlers = Append(@, stmts[i].val), !.hasWeb = TRUE]
             [] OTHER -> g,
           stmts, i + 1)

(* What Generate resets when it starts: g.output.Reset().                  *)
resetForGenerate(g) == [g EXCEPT !.output = <<>>]

(* The generator object after Generate(prog) has run on g.                 *)
GenerateOn(g, prog) ==
    LET c == collect(resetForGenerate(g), prog, 1)
    IN  [c EXCEPT !.output =
           @ \o generateHeaders(c)
             \o Flatten(Map(generateStruct, c.structs))
             \o Flatten(Map(generateCRUD, c.structs))
             \o (IF c.hasWeb THEN generateWebServer(c) ELSE generateMain(c))]

----------------------------------------------------------------------------
(* TemplateGenerator (template_generator.go): its own copies of the        *)
(* helpers, and the input kind prepareHTMLData chooses for a form field.   *)

RECURSIVE templateTableNameFrom(_, _)
templateTableNameFrom(s, i) ==
    IF i > Len(s.Decorators) THEN ToLower(s.Name) \o <<"s">>
    ELSE IF s.Decorators[i].Name = "table" /\ Len(s.Decorators[i].Args) > 0
    THEN Trim(s.Decorators[i].Args[1], Quote)
    ELSE templateTableNameFrom(s, i + 1)

templateGetTableName(s) == templateTableNameFrom(s, 1)

RECURSIVE templateConstraintsFrom(_, _, _)
templateConstraintsFrom(decs, i, constraints) ==
    IF i > Len(decs) THEN constraints
    ELSE templateConstraintsFrom(
           decs, i + 1,
           constraints \o (CASE decs[i].Name = "primary" -> <<" PRIMARY KEY">>
                             [] decs[i].Name = "autoincrement" -> <<" AUTOINCREMENT">>
                             [] decs[i].Name = "required" -> <<" NOT NULL">>
                             [] decs[i].Name = "unique" -> <<" UNIQUE">>
                             [] OTHER -> <<>>))

templateGetFieldConstraints(field) == templateConstraintsFrom(field.Decorators, 1, <<>>)

templateInputType(field) ==
    IF field.Name = "description" THEN "textarea"
    ELSE IF field.Type = "bool" THEN "checkbox"
    ELSE IF field.Type = "int" THEN "number"
    ELSE "text"

templateMapType(zlType) ==
    CASE zlType = "int" -> "int64_t"
      [] zlType = "float" -> "double"
      [] zlType = "string" -> "char*"
      [] zlType = "bool" -> "int"
      [] zlType \in {"date", "datetime"} -> "char*"
      [] OTHER -> zlType

templateMapSQLType(zlType) ==
    CASE zlType = "int" -> "INTEGER"
      [] zlType = "float" -> "REAL"
      [] zlType = "string" -> "TEXT"
      [] zlType = "bool" -> "INTEGER"
      [] zlType \in {"date", "datetime"} -> "TEXT"
      [] OTHER -> "TEXT"

templateGenerateHeaders(g) ==
    <<[sec |-> "headers",
       includes |-> <<"stdio.h", "stdlib.h", "string.h", "sqlite3.h">>
                    \o (IF g.hasWeb THEN <<"ctype.h", "microhttpd.h">> ELSE <<>>),
       globals |-> <<"db">> \o (IF g.hasWeb THEN <<"http_daemon">> ELSE <<>>)]>>

(* The data handed to struct_def.tmpl.                                     *)
generateStructWithTemplate(s) ==
    <<[sec |-> "struct_def.tmpl", StructName |-> s.Name,
       Fields |-> [i \in DOMAIN s.Fields |->
                     [Name |-> s.Fields[i].Name,
                      CType |-> templateMapType(s.Fields[i].Type),
                      IsArray |-> s.Fields[i].IsArray]]]>>

(* The FieldData prepareCRUDData builds for a field.                       *)
crudFieldData(field) ==
    [Name |-> field.Name, CType |-> templateMapType(field.Type),
     SQLType |-> templateMapSQLType(field.Type),
     Constraints |-> templateGetFieldConstraints(field),
     IsAutoIncrement |-> HasDecorator(field, {"autoincrement", "timestamp"})
                         /\ HasDecorator(field, {"primary"}),
     IsBool |-> field.Type = "bool"]

crudParamField(field) == ~HasDecorator(field, {"autoincrement", "timestamp"})

prepareCRUDData(s, tableName) ==
    LET fields == SelectSeq(s.Fields, NotArray)
        params == SelectSeq(fields, crudParamField)
    IN  [StructName |-> s.Name, TableName |-> tableName,
         Params |-> [i \in DOMAIN params |->
                       [Type |-> templateMapType(params[i].Type), Name |-> params[i].Name]],
         BindFields |-> Map(crudFieldData, params),
         AllFields |-> Map(crudFieldData, fields),
         Fields |-> Map(crudFieldData, fields),
         FieldNames |-> Map(fieldName, params),
         Placeholders |-> [i \in DOMAIN params |-> "?"]]

generateCRUDWithTemplates(s) ==
    [i \in 1..5 |->
       [sec |-> <<"crud_create.tmpl", "crud_find.tmpl", "crud_all.tmpl",
                  "crud_delete.tmpl", "crud_init_table.tmpl">>[i],
        data |-> prepareCRUDData(s, templateGetTableName(s))]]

htmlFormField(field) == ~HasDecorator(field, {"autoincrement", "primary"})

prepareHTMLData(page, s) ==
    LET fields == SelectSeq(s.Fields, NotArray)
        formFields == SelectSeq(fields, htmlFormField)
    IN  [PageNameLower |-> ToLower(page.Name), PageTitle |-> page.Name,
         HasDataList |-> TRUE, HasForm |-> TRUE,
         StructName |-> s.Name, TableName |-> templateGetTableName(s),
         Fields |-> [i \in DOMAIN fields |->
                       [Name |-> fields[i].Name,
                        CType |-> templateMapType(fields[i].Type),
                        SQLType |-> templateMapSQLType(fields[i].Type),
                        Constraints |-> templateGetFieldConstraints(fields[i]),
                        Title |-> Title(fields[i].Name),
                        IsBool |-> fields[i].Type = "bool"]],
         FormFields |-> [i \in DOMAIN formFields |->
                           [Name |-> formFields[i].Name,
                            Label |-> Title(formFields[i].Name),
                            InputType |-> templateInputType(formFields[i]),
                            Required |-> HasDecorator(formFields[i], {"required"})]]]

generateWebServerWithTemplates(g) ==
    LET pair == Len(g.pages) > 0 /\ Len(g.structs) > 0
        formFields == SelectSeq(SelectSeq(g.structs[1].Fields, NotArray), htmlFormField)
    IN  <<[sec |-> "html_header.tmpl"]>>
        \o (IF pair
            THEN <<[sec |-> "html_page.tmpl",
                    data |-> prepareHTMLData(g.pages[1], g.structs[1])],
                   [sec |-> "http_handler.tmpl",
                    StructName |-> g.structs[1].Name,
                    TableName |-> templateGetTableName(g.structs[1]),
                    PageNameLower |-> ToLower(g.pages[1].Name),
                    FormFields |-> [i \in DOMAIN formFields |->
                                      [Name |-> formFields[i].Name,
                                       CType |-> templateMapType(formFields[i].Type),
                                       IsBool |-> formFields[i].Type = "bool"]]]>>
            ELSE <<>>)
        \o <<[sec |-> "web_main.tmpl", Structs |-> Map(structName, g.structs)]>>

(* generateMainOld writes two comment lines and no function.               *)
generateMainOld ==
    <<[sec |-> "comment", text |-> "TODO: Generate CLI main using template"],
      [sec |-> "comment", text |-> "For now, CLI apps use old c_generator.go"]>>

(* The text TemplateGenerator.Generate returns, for the generator object   *)
(* c as the statement loop left it (the loop is CGenerator's, word for     *)
(* word).                                                                  *)
templateOutput(c) ==
    templateGenerateHeaders(c)
    \o Flatten(Map(generateStructWithTemplate, c.structs))
    \o Flatten(Map(generateCRUDWithTemplates, c.structs))
    \o (IF c.hasWeb THEN generateWebServerWithTemplates(c) ELSE generateMainOld)

----------------------------------------------------------------------------
(* Programs handed to the generator.  Every statement is a declaration the *)
(* parser built in full; field names within a struct are distinct.         *)

MaxFields == 3
MaxCalls == 2

Dec(name) == [Name |-> name, Args |-> <<>>]
DecArg(name, arg) == [Name |-> name, Args |-> <<arg>>]
Field(name, type, isArray, decs) ==
    [Name |-> name, Type |-> type, IsArray |-> isArray, Decorators |-> decs]

FieldPool ==
    { Field("id", "int", FALSE, <<Dec("primary"), Dec("autoincrement")>>),
      Field("title", "string", FALSE, <<Dec("required")>>),
      Field("description", "string", FALSE, <<>>),
      Field("done", "bool", FALSE, <<>>),
      Field("tags", "int", TRUE, <<>>),
      Field("created", "datetime", FALSE, <<Dec("timestamp")>>) }

FieldLists ==
    UNION { { fs \in [1..n -> FieldPool] :
                \A i, j \in 1..n : fs[i] = fs[j] => i = j } : n \in 0..MaxFields }

TodoName == <<"T", "o", "d", "o">>
NoteName == <<"N", "o", "t", "e">>
HomeName == <<"H", "o", "m", "e">>
SaveName == <<"s", "a", "v", "e">>
ItemsArg == <<Quote, "i", "t", "e", "m", "s", Quote>>

StructNode(name, decs, fields) ==
    NodeOf("StructDecl", [Name |-> name, Decorators |-> decs, Fields |-> fields])
HomePage == NodeOf("PageDecl", [Name |-> HomeName, Decorators |-> <<>>])
SaveHandler ==
    NodeOf("HandlerDecl", [Name |-> SaveName, Parameters |-> <<>>,
                           ReturnType |-> "void", Decorators |-> <<>>])
NoteNode ==
    StructNode(NoteName, <<>>, <<Field("id", "int", FALSE, <<>>),
                                 Field("price", "float", FALSE, <<>>)>>)

EmptyProgram == <<>>

Programs ==
    {EmptyProgram, <<HomePage>>, <<SaveHandler>>}
    \cup { <<StructNode(TodoName, <<>>, fs)>> : fs \in FieldLists }
    \cup { <<StructNode(TodoName, <<DecArg("table", ItemsArg)>>, fs), HomePage>> :
             fs \in FieldLists }
    \cup { <<HomePage, SaveHandler, StructNode(TodoName, <<>>, fs), NoteNode>> :
             fs \in FieldLists }

(* gen.Generate(p) on the generator object as earlier calls left it.       *)
Generate(p) ==
    /\ calls < MaxCalls
    /\ gen' = GenerateOn(gen, p)
    /\ calls' = calls + 1
    /\ prevCall' = lastCall
    /\ lastCall' = [prog |-> p, start |-> gen, out |-> gen'.output]
    /\ UNCHANGED <<program, tgen, pvars, hvars, lvars>>

GenerateProgram == Generate(program)

GenerateEmpty == Generate(EmptyProgram)

(* gen = codegen.New(): the caller replaces its generator object.          *)
NewGenerator ==
    /\ gen' = New
    /\ UNCHANGED <<program, calls, lastCall, prevCall, tgen, pvars, hvars, lvars>>

InitIdleParser ==
    /\ tokens = <<>>
    /\ pos = 1
    /\ pc = "idle"
    /\ ctx = "none"
    /\ errors = <<>>
    /\ statements = <<>>
    /\ iterStart = 0
    /\ decorators = <<>>
    /\ decorator = NoDecorator
    /\ stmtDecorators = <<>>
    /\ decl = NoDecl
    /\ braceCount = 0

InitGen ==
    /\ InitIdleParser
    /\ program \in Programs
    /\ gen = New
    /\ tgen = NewTemplateGenerator
    /\ IdleLexer
    /\ calls = 0
    /\ lastCall = NoCall
    /\ prevCall = NoCall
    /\ helperInput = NoHelper
    /\ helperResult = NoHelper

NextGen == GenerateProgram \/ GenerateEmpty \/ NewGenerator

SpecGen == InitGen /\ [][NextGen]_vars

(* tgen.Generate(p) on the TemplateGenerator object as earlier calls left  *)
(* it; every template executes without error.                              *)
TemplateGenerate(p) ==
    /\ calls < MaxCalls
    /\ tgen' = collect(tgen, p, 1)
    /\ calls' = calls + 1
    /\ prevCall' = lastCall
    /\ lastCall' = [prog |-> p, start |-> tgen, out |-> templateOutput(tgen')]
    /\ UNCHANGED <<program, gen, pvars, hvars, lvars>>

TemplateGenerateProgram == TemplateGenerate(program)

TemplateGenerateEmpty == TemplateGenerate(EmptyProgram)

(* tgen, _ = NewTemplateGenerator()                                        *)
RenewTemplateGenerator ==
    /\ tgen' = NewTemplateGenerator
    /\ UNCHANGED <<program, gen, calls, lastCall, prevCall, pvars, hvars, lvars>>

NextTemplate == TemplateGenerateProgram \/ TemplateGenerateEmpty \/ RenewTemplateGenerator

SpecTemplate == InitGen /\ [][NextTemplate]_vars

----------------------------------------------------------------------------
(* The helper functions on their own: one struct or one field is fixed,    *)
(* and each helper of both generators is applied to it, any number of      *)
(* times up to MaxApply.                                                   *)

MaxDecs == 3
MaxStructDecs == 2
MaxApply == 2

FieldDecoratorNames == {"primary", "autoincrement", "required", "unique", "index"}
FieldTypes == {"int", "float", "string", "bool", "date", "datetime", "Money"}
FieldNames == {"id", "description", "title"}

DecLists(names, n) ==
    UNION { [1..m -> { Dec(d) : d \in names }] : m \in 0..n }

TodosArg == <<Quote, "t", "o", "d", "o", "s", Quote>>
BareArg == <<"t", "b", "l">>
QuotesOnlyArg == <<Quote, Quote>>
InnerQuoteArg == <<Quote, "a", Quote, "b", Quote>>

StructDecorators ==
    { DecArg("table", TodosArg), DecArg("table", BareArg),
      DecArg("table", QuotesOnlyArg), DecArg("table", InnerQuoteArg),
      Dec("table"), DecArg("route", TodosArg), Dec("cached") }

StructNames == {TodoName, <<"U", "s", "e", "r", "2">>, <<"x">>}

HelperStructs ==
    { [Name |-> n, Decorators |-> ds, Fields |-> <<>>] :
        n \in StructNames,
        ds \in UNION { [1..m -> StructDecorators] : m \in 0..MaxStructDecs } }

HelperFields ==
    { Field(n, t, FALSE, ds) :
        n \in FieldNames, t \in FieldTypes, ds \in DecLists({"required", "primary"}, 1) }
    \cup { Field("id", "int", FALSE, ds) : ds \in DecLists(FieldDecoratorNames, MaxDecs) }

(* Product { @primary @autoincrement int id; @required string name;        *)
(*           float price; }                                                *)
Product ==
    [Name |-> <<"P", "r", "o", "d", "u", "c", "t">>, Decorators |-> <<>>,
     Fields |-> <<Field("id", "int", FALSE, <<Dec("primary"), Dec("autoincrement")>>),
                  Field("name", "string", FALSE, <<Dec("required")>>),
                  Field("price", "float", FALSE, <<>>)>>]

HelperRecords ==
    {Product,
     [Name |-> NoteName, Decorators |-> <<>>,
      Fields |-> <<Field("total", "Money", FALSE, <<>>), Field("day", "date", FALSE, <<>>),
                   Field("lines", "Money", TRUE, <<>>)>>]}
    \cup { [Name |-> TodoName, Decorators |-> <<>>, Fields |-> fs] :
                       fs \in FieldLists }

HelperInputs ==
    { [kind |-> "struct", s |-> st] : st \in HelperStructs }
    \cup { [kind |-> "field", f |-> fd] : fd \in HelperFields }
    \cup { [kind |-> "record", s |-> st] : st \in HelperRecords }

(* One application: what the CGenerator's helper and the                   *)
(* TemplateGenerator's helper returned, and how many applications so far.  *)
Apply(kind, cgen, template) ==
    /\ helperResult.n < MaxApply
    /\ helperResult' = [kind |-> kind, cgen |-> cgen, template |-> template,
                        n |-> helperResult.n + 1]
    /\ UNCHANGED <<helperInput, gvars, pvars, lvars>>

GetTableName ==
    /\ helperInput.kind = "struct"
    /\ Apply("tableName", getTableName(helperInput.s),
             templateGetTableName(helperInput.s))

GetFieldConstraints ==
    /\ helperInput.kind = "field"
    /\ Apply("constraints", getFieldConstraints(helperInput.f),
             templateGetFieldConstraints(helperInput.f))

(* The form control written for a field that gets one.                     *)
FormInput ==
    /\ helperInput.kind = "field"
    /\ formField(helperInput.f)
    /\ Apply("inputKind", formInputKind(helperInput.f),
             templateInputType(helperInput.f))

InitHelpers ==
    /\ InitIdleParser
    /\ program = EmptyProgram
    /\ gen = New
    /\ tgen = NewTemplateGenerator
    /\ IdleLexer
    /\ calls = 0
    /\ lastCall = NoCall
    /\ prevCall = NoCall
    /\ helperInput \in HelperInputs
    /\ helperResult = NoHelper

(* The parameter list, INSERT column list and placeholders of the create   *)
(* function: generateCreate's, and those prepareCRUDData hands to          *)
(* crud_create.tmpl.                                                       *)
CreateParameters ==
    /\ helperInput.kind = "record"
    /\ Apply("create",
             [params |-> generateCreate(helperInput.s, getTableName(helperInput.s))[1].params,
              columns |-> generateCreate(helperInput.s,
                                         getTableName(helperInput.s))[1].insertColumns,
              placeholders |-> generateCreate(helperInput.s,
                                              getTableName(helperInput.s))[1].placeholders],
             [params |-> [i \in DOMAIN prepareCRUDData(helperInput.s, <<>>).Params |->
                            [ctype |-> prepareCRUDData(helperInput.s, <<>>).Params[i].Type,
                             name |-> prepareCRUDData(helperInput.s, <<>>).Params[i].Name]],
              columns |-> prepareCRUDData(helperInput.s, <<>>).FieldNames,
              placeholders |-> Len(prepareCRUDData(helperInput.s, <<>>).Placeholders)])

(* The C type and the SQL type of a field's type name.                     *)
MapTypes ==
    /\ helperInput.kind = "field"
    /\ Apply("types",
             [ctype |-> mapType(helperInput.f.Type), sql |-> mapSQLType(helperInput.f.Type)],
             [ctype |-> templateMapType(helperInput.f.Type),
              sql |-> templateMapSQLType(helperInput.f.Type)])

(* The members of the record type: generateStruct's, and the fields        *)
(* generateStructWithTemplate hands to struct_def.tmpl.                    *)
StructDefinition ==
    /\ helperInput.kind = "record"
    /\ Apply("members", generateStruct(helperInput.s)[1].members,
             generateStructWithTemplate(helperInput.s)[1].Fields)

NextHelpers ==
    \/ GetTableName \/ GetFieldConstraints \/ FormInput
    \/ CreateParameters \/ MapTypes \/ StructDefinition

SpecHelpers == InitHelpers /\ [][NextHelpers]_vars

----------------------------------------------------------------------------
(* Properties of the generated text.                                       *)

Range(seq) == { seq[i] : i \in DOMAIN seq }
NameSeq(seq) == [i \in DOMAIN seq |-> seq[i].name]
Names(seq) == Range(NameSeq(seq))
NonArrayNames(s) == Map(fieldName, SelectSeq(s.Fields, NotArray))

(* The struct a section was written for, if it was written for one.        *)
OwnerOf(sec) ==
    CASE sec.sec \in {"struct", "init_table", "create", "find", "all", "delete",
                      "handle_request"} -> <<sec.struct>>
      [] sec.sec = "main" -> [i \in DOMAIN sec.demo |-> sec.demo[i].struct]
      [] sec.sec = "render_page" -> [i \in DOMAIN sec.dataList |-> sec.dataList[i].struct]
      [] OTHER -> <<>>

(* The field names a persistence or UI section refers to.                  *)
Mentioned(sec) ==
    CASE sec.sec = "init_table" -> Names(sec.columns)
      [] sec.sec = "create" ->
           Names(sec.params) \cup Range(sec.insertColumns) \cup Names(sec.binds)
           \cup Names(sec.populate)
      [] sec.sec \in {"find", "all"} -> Names(sec.reads)
      [] sec.sec = "main" ->
           UNION { Names(sec.demo[i].found) \cup Range(sec.demo[i].listed) :
                     i \in DOMAIN sec.demo }
      [] sec.sec = "render_page" ->
           UNION { { sec.dataList[i].headers[j][2] : j \in DOMAIN sec.dataList[i].headers }
                   \cup Names(sec.dataList[i].cells) : i \in DOMAIN sec.dataList }
           \cup UNION { Names(sec.form[i].inputs) : i \in DOMAIN sec.form }
      [] sec.sec = "handle_request" -> Names(sec.extract) \cup Range(sec.createArgs)
      [] OTHER -> {}

SectionsOf(s) == { sec \in Range(gen.output) : OwnerOf(sec) = <<s.Name>> }

(* C4: for every struct, the fields listed in the CREATE TABLE schema, in  *)
(* the create function's parameter list, in the find and list-all column   *)
(* reads and in the create-form are, in each of them, exactly the struct's *)
(* non-array fields in declaration order.                                  *)
FourListsAreTheNonArrayFields ==
    \A s \in Range(gen.structs) :
      \A sec \in SectionsOf(s) :
        /\ sec.sec = "init_table" => NameSeq(sec.columns) = NonArrayNames(s)
        /\ sec.sec = "create" => NameSeq(sec.params) = NonArrayNames(s)
        /\ sec.sec \in {"find", "all"} => NameSeq(sec.reads) = NonArrayNames(s)
        /\ sec.sec = "render_page" =>
             \A k \in DOMAIN sec.form : NameSeq(sec.form[k].inputs) = NonArrayNames(s)

(* C5: a field marked as array is in no persistence or UI section of its   *)
(* struct (schema columns, create parameters, INSERT columns, binds,       *)
(* column reads, data-list columns, form inputs, form-value extraction);   *)
(* it is in the record type only, as a pointer member and a count member.  *)
ArrayFieldOnlyInRecordType ==
    \A s \in Range(gen.structs) :
      \A sec \in SectionsOf(s) :
        \A f \in { x \in Range(s.Fields) : x.IsArray } :
          IF sec.sec = "struct"
          THEN /\ \E m \in DOMAIN sec.members :
                    sec.members[m].name = f.Name /\ sec.members[m].role = "pointer"
               /\ \E m \in DOMAIN sec.members :
                    /\ sec.members[m].name = f.Name
                    /\ sec.members[m].role = "count"
                    /\ sec.members[m].ctype = "int"
          ELSE f.Name \notin Mentioned(sec)

(* A web program whose first struct has an array field between two other   *)
(* fields has been generated, page and request dispatch included.          *)
ArrayFieldGenerated ==
    /\ calls > 0
    /\ Len(gen.structs) > 0
    /\ Len(gen.structs[1].Fields) = 3
    /\ gen.structs[1].Fields[2].IsArray
    /\ \E k \in DOMAIN gen.output :
         gen.output[k].sec = "render_page" /\ gen.output[k].form # <<>>
    /\ \E k \in DOMAIN gen.output : gen.output[k].sec = "handle_request"
    /\ \E k \in DOMAIN gen.output : gen.output[k].sec = "create"

(* C9: generating twice from the identical Program gives identical text.   *)
RegenerationIsIdentical ==
    (calls >= 2 /\ lastCall.prog = prevCall.prog) => lastCall.out = prevCall.out

(* C10: at the start of every Generate call the struct, page and handler   *)
(* accumulators are empty and the web-mode flag is false.                  *)
GenerateStartsFresh ==
    calls > 0 =>
      /\ lastCall.start.structs = <<>>
      /\ lastCall.start.pages = <<>>
      /\ lastCall.start.handlers = <<>>
      /\ ~lastCall.start.hasWeb

----------------------------------------------------------------------------
(* Properties of the helper functions.                                     *)

TableDecorators(s) ==
    { i \in DOMAIN s.Decorators :
        s.Decorators[i].Name = "table" /\ s.Decorators[i].Args # <<>> }

(* str without the double quotes at its two ends.                          *)
Unquoted(str) ==
    LET inner == { i \in DOMAIN str : str[i] # Quote }
    IN  IF inner = {} THEN <<>>
        ELSE SubSeq(str, CHOOSE a \in inner : \A b \in inner : a <= b,
                         CHOOSE a \in inner : \A b \in inner : a >= b)

TableNameOf(s) ==
    IF TableDecorators(s) = {} THEN ToLower(s.Name) \o <<"s">>
    ELSE Unquoted(s.Decorators[CHOOSE i \in TableDecorators(s) :
                                 \A j \in TableDecorators(s) : i <= j].Args[1])

(* C6: the table name is the first argument of the struct's table          *)
(* decorator without its surrounding double quotes when there is such a    *)
(* decorator with an argument, else the lowercased struct name followed by *)
(* "s"; both generators derive the same name, deriving it again gives the  *)
(* same name, and deriving it changes no generator state.                  *)
TableNameDerivation ==
    /\ [](helperResult.kind = "tableName" =>
            /\ helperResult.cgen = TableNameOf(helperInput.s)
            /\ helperResult.template = helperResult.cgen)
    /\ [][helperResult'.kind = "tableName" =>
            /\ gen' = gen
            /\ helperResult.kind = "tableName" =>
                 /\ helperResult'.cgen = helperResult.cgen
                 /\ helperResult'.template = helperResult.template]_vars

(* The name was derived twice from a quoted table argument that follows a  *)
(* table decorator without arguments.                                      *)
TableNameDerivedTwice ==
    /\ helperResult.kind = "tableName"
    /\ helperResult.n = 2
    /\ helperInput.s.Decorators = <<Dec("table"), DecArg("table", TodosArg)>>
    /\ helperResult.cgen = <<"t", "o", "d", "o", "s">>

KeywordOf ==
    [primary |-> " PRIMARY KEY", autoincrement |-> " AUTOINCREMENT",
     required |-> " NOT NULL", unique |-> " UNIQUE"]

Recognized(dec) == dec.Name \in DOMAIN KeywordOf

DecoratorNames(field) == [i \in DOMAIN field.Decorators |-> field.Decorators[i].Name]

(* C7: the constraint suffix has one keyword per recognized decorator, in  *)
(* the order the decorators were written; unrecognized names add nothing;  *)
(* primary, autoincrement, required gives                                  *)
(* " PRIMARY KEY AUTOINCREMENT NOT NULL".                                  *)
ConstraintsInDecoratorOrder ==
    helperResult.kind = "constraints" =>
      /\ helperResult.cgen =
           [i \in DOMAIN SelectSeq(helperInput.f.Decorators, Recognized) |->
              KeywordOf[SelectSeq(helperInput.f.Decorators, Recognized)[i].Name]]
      /\ helperResult.template = helperResult.cgen
      /\ DecoratorNames(helperInput.f) = <<"primary", "autoincrement", "required">> =>
           helperResult.cgen = <<" PRIMARY KEY", " AUTOINCREMENT", " NOT NULL">>

ConstraintsOfThreeDecorators ==
    /\ helperResult.kind = "constraints"
    /\ DecoratorNames(helperInput.f) = <<"primary", "autoincrement", "required">>
    /\ helperResult.cgen = <<" PRIMARY KEY", " AUTOINCREMENT", " NOT NULL">>

InputKindOf(field) ==
    CASE field.Name = "description" -> "textarea"
      [] field.Name # "description" /\ field.Type = "bool" -> "checkbox"
      [] field.Name # "description" /\ field.Type = "int" -> "number"
      [] OTHER -> "text"

(* C8: a form field named "description" is a text area whatever its type;  *)
(* otherwise a bool field is a checkbox, otherwise an int field a numeric  *)
(* input, and every other field a single-line text input.                  *)
FormInputKindRule ==
    helperResult.kind = "inputKind" =>
      /\ helperResult.cgen = InputKindOf(helperInput.f)
      /\ helperResult.template = InputKindOf(helperInput.f)

----------------------------------------------------------------------------
(* Properties of Generate as a whole.                                      *)

HasWebDeclaration(prog) ==
    \E i \in DOMAIN prog : prog[i].kind \in {"PageDecl", "HandlerDecl"}

Count(seq, x) == Cardinality({ i \in DOMAIN seq : seq[i] = x })

(* C11: after classification the web flag is true exactly when the Program *)
(* has a page or a handler; every output has the standard and storage      *)
(* includes and one global storage handle; the HTTP includes and the       *)
(* global server handle are in the output exactly when the flag is true.   *)
WebFlagFollowsProgram ==
    [][calls' = calls + 1 =>
         /\ gen'.hasWeb <=> HasWebDeclaration(lastCall'.prog)
         /\ lastCall'.out[1].sec = "headers"
         /\ \A h \in {"stdio.h", "stdlib.h", "string.h", "sqlite3.h"} :
              Count(lastCall'.out[1].includes, h) = 1
         /\ Count(lastCall'.out[1].globals, "db") = 1
         /\ \A h \in {"ctype.h", "microhttpd.h"} :
              Count(lastCall'.out[1].includes, h) = (IF gen'.hasWeb THEN 1 ELSE 0)
         /\ Count(lastCall'.out[1].globals, "http_daemon") = (IF gen'.hasWeb THEN 1 ELSE 0)]_vars

IsStruct(stmt) == stmt.kind = "StructDecl"
StructNamesOf(prog) ==
    [i \in DOMAIN SelectSeq(prog, IsStruct) |-> SelectSeq(prog, IsStruct)[i].val.Name]

DemoEntry(sec) == sec.sec = "main"
WebEntry(sec) == sec.sec \in {"web_main", "web_main.tmpl"}

(* C12: every output has exactly one entry point; for a Program with no    *)
(* page and no handler it is the demonstration entry point, which calls    *)
(* init-table for every struct in declaration order and runs its sample    *)
(* calls against the first struct; for a Program with a page or handler it *)
(* is the web-server entry point, and there is no demonstration one.       *)
ExactlyOneEntryPoint ==
    calls > 0 =>
      /\ Len(SelectSeq(lastCall.out, DemoEntry)) + Len(SelectSeq(lastCall.out, WebEntry)) = 1
      /\ ~HasWebDeclaration(lastCall.prog) =>
           /\ Len(SelectSeq(lastCall.out, DemoEntry)) = 1
           /\ SelectSeq(lastCall.out, DemoEntry)[1].initTables = StructNamesOf(lastCall.prog)
           /\ [i \in DOMAIN SelectSeq(lastCall.out, DemoEntry)[1].demo |->
                 SelectSeq(lastCall.out, DemoEntry)[1].demo[i].struct]
              = SubSeq(StructNamesOf(lastCall.prog), 1,
                       IF StructNamesOf(lastCall.prog) = <<>> THEN 0 ELSE 1)
      /\ HasWebDeclaration(lastCall.prog) => Len(SelectSeq(lastCall.out, WebEntry)) = 1

----------------------------------------------------------------------------
(* Properties of the create function and of the type mapping.              *)

IsParameter(field) ==
    /\ ~field.IsArray
    /\ \A i \in DOMAIN field.Decorators :
         field.Decorators[i].Name # "autoincrement" /\ field.Decorators[i].Name # "timestamp"

(* C13: the create function has one parameter per non-array field without  *)
(* an autoincrement or timestamp decorator, in declaration order; the      *)
(* INSERT column list names exactly those fields in that order; there are  *)
(* as many placeholders as parameters; for Product the parameters are      *)
(* (name, price).                                                          *)
CreateParametersAreTheSuppliedFields ==
    helperResult.kind = "create" =>
      /\ NameSeq(helperResult.cgen.params)
           = Map(fieldName, SelectSeq(helperInput.s.Fields, IsParameter))
      /\ helperResult.cgen.columns = NameSeq(helperResult.cgen.params)
      /\ helperResult.cgen.placeholders = Len(helperResult.cgen.params)
      /\ helperResult.template = helperResult.cgen
      /\ helperInput.s = Product => helperResult.cgen.columns = <<"name", "price">>

ProductCreateParameters ==
    /\ helperResult.kind = "create"
    /\ helperInput.s = Product
    /\ NameSeq(helperResult.cgen.params) = <<"name", "price">>
    /\ helperResult.cgen.placeholders = 2

(* The README's Data Types table.                                          *)
TargetType(t) ==
    IF t = "int" THEN "int64_t" ELSE IF t = "float" THEN "double"
    ELSE IF t = "bool" THEN "int"
    ELSE IF t = "string" \/ t = "date" \/ t = "datetime" THEN "char*" ELSE t

StorageType ==
    [t \in {"int", "float", "string", "bool", "date", "datetime"} |->
       IF t = "int" \/ t = "bool" THEN "INTEGER" ELSE IF t = "float" THEN "REAL" ELSE "TEXT"]

(* C14: the record type holds the struct's fields in declaration order,    *)
(* each with the target type of the fixed mapping (other type names        *)
(* unchanged); the SQL type is INTEGER, REAL, TEXT, INTEGER, TEXT, TEXT;   *)
(* the two generators' copies of the mapping agree on every type name.     *)
TypeMappingIsFixed ==
    /\ helperResult.kind = "types" =>
         /\ helperResult.cgen.ctype = TargetType(helperInput.f.Type)
         /\ helperInput.f.Type \in DOMAIN StorageType =>
              helperResult.cgen.sql = StorageType[helperInput.f.Type]
         /\ helperResult.template = helperResult.cgen
    /\ helperResult.kind = "members" =>
         /\ SelectSeq(helperResult.cgen, LAMBDA m : m.role # "count")
              = [i \in DOMAIN helperInput.s.Fields |->
                   [name |-> helperInput.s.Fields[i].Name,
                    ctype |-> TargetType(helperInput.s.Fields[i].Type),
                    role |-> IF helperInput.s.Fields[i].IsArray THEN "pointer" ELSE "value"]]
         /\ helperResult.template
              = [i \in DOMAIN helperInput.s.Fields |->
                   [Name |-> helperInput.s.Fields[i].Name,
                    CType |-> TargetType(helperInput.s.Fields[i].Type),
                    IsArray |-> helperInput.s.Fields[i].IsArray]]

CustomAndDateMembers ==
    /\ helperResult.kind = "members"
    /\ helperInput.s.Name = NoteName
    /\ helperResult.cgen[1].ctype = "Money"
    /\ helperResult.cgen[2].ctype = "char*"
    /\ helperResult.n = MaxApply

----------------------------------------------------------------------------
(* The lexer.  The input is a sequence of bytes, each written as a         *)
(* one-character string, "NUL" for the byte 0; Go's 0-based input[i] is    *)
(* input[i + 1] here.                                                      *)

MaxInput == 3
MaxPastEnd == 3

Letters == {"i", "f", "_"}
Digits == {"1"}
Whitespace == {" ", "\t", "\n", "\r"}

(* The bytes the inputs are drawn from: a letter of a keyword and one of   *)
(* none, a digit, the characters the lexer looks ahead for, white space,   *)
(* the byte 0 and a character that starts no token.                        *)
Alphabet ==
    {"i", "f", "1", ".", "\"", "\\", "/", "*", "&", "|", " ", "\n", "NUL", "#"}

(* Inputs begin with nothing, with a closed block comment holding a line   *)
(* break, or with a line comment and its line break; any MaxInput bytes    *)
(* follow.                                                                 *)
CommentOpenings ==
    {<<>>, <<"/", "*", "\n", "*", "/">>, <<"/", "/", "i", "\n">>}

Inputs ==
    { o \o f : o \in CommentOpenings, f \in UNION { [1..n -> Alphabet] : n \in 0..MaxInput } }

keywords ==
    (<<"s","t","r","u","c","t">> :> "STRUCT") @@ (<<"i","n","t">> :> "INT_TYPE")
    @@ (<<"f","l","o","a","t">> :> "FLOAT_TYPE")
    @@ (<<"s","t","r","i","n","g">> :> "STRING_TYPE")
    @@ (<<"b","o","o","l">> :> "BOOL_TYPE") @@ (<<"d","a","t","e">> :> "DATE")
    @@ (<<"d","a","t","e","t","i","m","e">> :> "DATETIME") @@ (<<"i","f">> :> "IF")
    @@ (<<"e","l","s","e">> :> "ELSE") @@ (<<"f","o","r">> :> "FOR")
    @@ (<<"w","h","i","l","e">> :> "WHILE") @@ (<<"r","e","t","u","r","n">> :> "RETURN")
    @@ (<<"t","r","u","e">> :> "TRUE") @@ (<<"f","a","l","s","e">> :> "FALSE")
    @@ (<<"v","o","i","d">> :> "VOID") @@ (<<"P","a","g","e">> :> "PAGE")
    @@ (<<"S","e","c","t","i","o","n">> :> "SECTION") @@ (<<"R","o","w">> :> "ROW")
    @@ (<<"C","o","l","u","m","n">> :> "COLUMN") @@ (<<"F","o","r","m">> :> "FORM")
    @@ (<<"I","n","p","u","t">> :> "INPUT") @@ (<<"B","u","t","t","o","n">> :> "BUTTON")
    @@ (<<"D","a","t","a","L","i","s","t">> :> "DATALIST")
    @@ (<<"h","a","n","d","l","e","r">> :> "HANDLER")
    @@ (<<"R","e","q","u","e","s","t">> :> "REQUEST")
    @@ (<<"R","e","s","p","o","n","s","e">> :> "RESPONSE")

LookupIdent(ident) == IF ident \in DOMAIN keywords THEN keywords[ident] ELSE IDENT

isLetter(ch) == ch \in Letters
isDigit(ch) == ch \in Digits

(* readChar reading the input cyclically once past its end.                *)
readCharCyclic(l) ==
    LET ch == IF l.readPosition % (Len(input) + 1) = Len(input) THEN "NUL"
              ELSE input[(l.readPosition % (Len(input) + 1)) + 1]
    IN  [position |-> l.readPosition, readPosition |-> l.readPosition + 1, ch |-> ch,
         line |-> IF ch = "\n" THEN l.line + 1 ELSE l.line,
         column |-> IF ch = "\n" THEN 0 ELSE l.column + 1]

readChar(l) ==
    LET ch == IF l.readPosition >= Len(input) THEN "NUL" ELSE input[l.readPosition + 1]
    IN  [position |-> l.readPosition, readPosition |-> l.readPosition + 1, ch |-> ch,
         line |-> IF ch = "\n" THEN l.line + 1 ELSE l.line,
         column |-> IF ch = "\n" THEN 0 ELSE l.column + 1]

peekChar(l) == IF l.readPosition >= Len(input) THEN "NUL" ELSE input[l.readPosition + 1]

(* lexer.New(input).                                                       *)
NewLexer ==
    readChar([position |-> 0, readPosition |-> 0, ch |-> "NUL", line |-> 1, column |-> 0])

(* for l.ch is one of chars { l.readChar() }                               *)
RECURSIVE readWhile(_, _)
readWhile(l, chars) == IF l.ch \in chars THEN readWhile(readChar(l), chars) ELSE l

skipWhitespace(l) == readWhile(l, Whitespace)

skipLineComment(l) == readWhile(readChar(readChar(l)), Alphabet \ {"\n", "NUL"})

RECURSIVE blockCommentBody(_)
blockCommentBody(l) ==
    IF l.ch = "NUL" THEN l
    ELSE IF l.ch = "*" /\ peekChar(l) = "/" THEN readChar(readChar(l))
    ELSE blockCommentBody(readChar(l))

skipBlockComment(l) == blockCommentBody(readChar(readChar(l)))

(* l.input[from:to]: the bytes, or a run-time panic when the bounds are    *)
(* not 0 <= from <= to <= len(input).                                      *)
Slice(from, to) ==
    IF 0 <= from /\ from <= to /\ to <= Len(input)
    THEN [ok |-> TRUE, str |-> SubSeq(input, from + 1, to)]
    ELSE [ok |-> FALSE, str |-> <<>>]

readIdentifier(l) ==
    LET after == readWhile(l, Letters \cup Digits \cup {"_"})
    IN  [l |-> after, lit |-> Slice(l.position, after.position), isFloat |-> FALSE]

readNumber(l) ==
    LET whole == readWhile(l, Digits)
        isFloat == whole.ch = "." /\ isDigit(peekChar(whole))
        after == IF isFloat THEN readWhile(readChar(whole), Digits) ELSE whole
    IN  [l |-> after, lit |-> Slice(l.position, after.position), isFloat |-> isFloat]

RECURSIVE stringBody(_)
stringBody(l) ==
    IF l.ch = "\"" \/ l.ch = "NUL" THEN l
    ELSE IF l.ch = "\\" /\ peekChar(l) = "\"" THEN stringBody(readChar(readChar(l)))
    ELSE stringBody(readChar(l))

readString(l) ==
    LET start == readChar(l)
        after == stringBody(start)
    IN  [l |-> readChar(after), lit |-> Slice(start.position, after.position),
         isFloat |-> FALSE]

(* The outcome of a call that panicked.                                    *)
Panic == [Type |-> "panic", Literal |-> <<>>, Line |-> 0, Column |-> 0]

(* The token of a readIdentifier, readNumber or readString result.         *)
Read(kind, r, at) ==
    [l |-> r.l,
     tok |-> IF r.lit.ok
             THEN [Type |-> kind, Literal |-> r.lit.str, Line |-> at.line, Column |-> at.column]
             ELSE Panic]

(* The characters whose case makes a token of the character alone, and    *)
(* those whose case looks for a following "=".                             *)
Single == {"@", "+", "-", "*", ",", ";", ":", "(", ")", "{", "}", "[", "]"}
WithEquals == {"=", "<", ">", "!"}

(* l.NextToken(): the lexer after the call and the token returned.         *)
RECURSIVE lexNextToken(_)
lexNextToken(l0) ==
    LET l == skipWhitespace(l0)
        Tok(kind, lit, after) ==
            [l |-> readChar(after),
             tok |-> [Type |-> kind, Literal |-> lit, Line |-> l.line, Column |-> l.column]]
    IN  IF l.ch \in Single THEN Tok(l.ch, <<l.ch>>, l)
        ELSE IF l.ch \in WithEquals
        THEN IF peekChar(l) = "="
             THEN Tok(IF l.ch = "=" THEN "==" ELSE IF l.ch = "<" THEN "<="
                      ELSE IF l.ch = ">" THEN ">=" ELSE "!=",
                      <<l.ch, readChar(l).ch>>, readChar(l))
             ELSE Tok(l.ch, <<l.ch>>, l)
        ELSE IF l.ch = "/"
        THEN IF peekChar(l) = "/" THEN lexNextToken(skipLineComment(l))
             ELSE IF peekChar(l) = "*" THEN lexNextToken(skipBlockComment(l))
             ELSE Tok("/", <<l.ch>>, l)
        ELSE IF l.ch \in {"&", "|"}
        THEN IF peekChar(l) = l.ch
             THEN Tok(IF l.ch = "&" THEN "&&" ELSE "||", <<l.ch, readChar(l).ch>>, readChar(l))
             ELSE Tok(ILLEGAL, <<l.ch>>, l)
        ELSE IF l.ch = "\"" THEN Read(STRING_LIT, readString(l), l)
        ELSE IF l.ch = "NUL" THEN Tok(EOF, <<>>, l)
        ELSE IF isLetter(l.ch)
        THEN Read(IF readIdentifier(l).lit.ok THEN LookupIdent(readIdentifier(l).lit.str)
                  ELSE IDENT, readIdentifier(l), l)
        ELSE IF isDigit(l.ch)
        THEN Read(IF readNumber(l).isFloat THEN FLOAT ELSE INT, readNumber(l), l)
        ELSE Tok(ILLEGAL, <<l.ch>>, l)

(* One call of NextToken by the lexer's user.                              *)
LexerNextToken ==
    /\ tok.Type # "panic"
    /\ lexer.position < Len(input) + MaxPastEnd
    /\ lexer' = lexNextToken(lexer).l
    /\ tok' = lexNextToken(lexer).tok
    /\ UNCHANGED <<input, pvars, gvars, hvars>>

InitLexer ==
    /\ InitIdleParser
    /\ program = EmptyProgram
    /\ gen = New
    /\ tgen = NewTemplateGenerator
    /\ calls = 0
    /\ lastCall = NoCall
    /\ prevCall = NoCall
    /\ helperInput = NoHelper
    /\ helperResult = NoHelper
    /\ input \in Inputs
    /\ lexer = NewLexer
    /\ tok = NoToken

NextLexer == LexerNextToken

SpecLexer == InitLexer /\ [][NextLexer]_vars

----------------------------------------------------------------------------
(* Properties of the lexer.                                                *)

(* C15: once the whole input is consumed and an end-of-input token has     *)
(* been returned, every later NextToken call returns an end-of-input token *)
(* with empty literal and does not fail.                                   *)
EndOfInputIsRepeated ==
    [][(tok.Type = EOF /\ lexer.position >= Len(input))
         => (tok'.Type = EOF /\ tok'.Literal = <<>>)]_vars

EndOfInputReturnedAgain ==
    /\ tok.Type = EOF
    /\ Len(input) = MaxInput
    /\ lexer.position >= Len(input) + MaxPastEnd

(* A character at the cursor that starts no token: none of the lexer's     *)
(* cases, not white space, and "&" or "|" only when not doubled.           *)
StartsNoToken(l) ==
    /\ l.position < Len(input)
    /\ \/ l.ch \in {"#", "NUL"}
       \/ l.ch \in {"&", "|"} /\ peekChar(l) # l.ch

(* C16: no NextToken call fails, whatever the input, and a character that  *)
(* starts no recognized token is returned as one ILLEGAL token whose       *)
(* literal is that character.                                              *)
UnrecognizedCharacterIsIllegal ==
    [][/\ tok'.Type # "panic"
       /\ StartsNoToken(lexer) =>
            /\ tok'.Type = ILLEGAL
            /\ tok'.Literal = <<lexer.ch>>
            /\ lexer'.position = lexer.position + 1]_vars

----------------------------------------------------------------------------
(* Properties of the parser's body skipping and of parseDecorators.        *)

(* Opening braces less closing braces among the tokens b..k.               *)
Depth(b, k) ==
    Cardinality({j \in b..k : KindAt(j) = LBRACE})
    - Cardinality({j \in b..k : KindAt(j) = RBRACE})

(* The closing brace that matches the opening brace at b, or the end of    *)
(* input when the brace is never closed.                                   *)
MatchingClose(b) ==
    IF \E k \in (b + 1)..Len(tokens) : Depth(b, k) = 0
    THEN CHOOSE k \in (b + 1)..Len(tokens) :
           Depth(b, k) = 0 /\ \A j \in (b + 1)..(k - 1) : Depth(b, j) # 0
    ELSE Len(tokens) + 1

(* The first token of the given kind at or after k, or the end of input.   *)
FirstOf(kind, k) ==
    IF \E j \in k..Len(tokens) : KindAt(j) = kind
    THEN CHOOSE j \in k..Len(tokens) :
           KindAt(j) = kind /\ \A i \in k..(j - 1) : KindAt(i) # kind
    ELSE Len(tokens) + 1

(* C17: when a page declaration has been parsed the current token is the  *)
(* closing brace matching the page's opening brace, nested brace pairs in  *)
(* the body included, so that no token of the body is dispatched as a      *)
(* top-level statement.                                                    *)
PageEndsAtMatchingBrace ==
    [][(pc = "pageBody" /\ pc' = "top") => pos = MatchingClose(decl.Name + 1)]_vars

(* The tokens from..to are decorators without arguments: @ name pairs.     *)
PlainDecorators(from, to) ==
    /\ (to - from + 1) % 2 = 0
    /\ \A k \in from..to :
         KindAt(k) = (IF (k - from) % 2 = 0 THEN AT ELSE IDENT)

WrittenDecorators(from, to) ==
    [j \in 1..((to - from + 1) \div 2) |->
       [Name |-> Lit(from + 2 * j - 1), Args |-> <<>>, KVArgs |-> <<>>]]

(* The tokens from..to are `type name` pairs separated by commas.          *)
ParameterPairs(from, to) ==
    /\ to < from \/ (to - from + 2) % 3 = 0
    /\ \A k \in from..to :
         CASE (k - from) % 3 = 0 -> isType(KindAt(k))
           [] (k - from) % 3 = 1 -> KindAt(k) = IDENT
           [] OTHER -> KindAt(k) = COMMA

WrittenParameters(from, to) ==
    [j \in 1..((to - from + 2) \div 3) |->
       [Name |-> Lit(from + 3 * j - 2), Type |-> Lit(from + 3 * j - 3)]]

(* C18: a handler body that follows the parameter list is skipped as a     *)
(* balanced-brace span ending at the closing brace that returns the depth  *)
(* to 0, and the top-level loop resumes just after it; the handler holds   *)
(* the `type name` pairs of its parameter list in order, and the           *)
(* decorators written before it in their order.                            *)
HandlerBodyIsBalancedSpan ==
    [][(pc = "handlerBody" /\ pc' = "top") =>
         LET close == FirstOf(RPAREN, decl.Name + 2)
             node == statements'[Len(statements')].val
         IN  /\ braceCount >= 0
             /\ pos = MatchingClose(close + 1)
             /\ pos' = pos + 1
             /\ Len(statements') = Len(statements) + 1
             /\ ParameterPairs(decl.Name + 2, close - 1) =>
                  node.Parameters = WrittenParameters(decl.Name + 2, close - 1)
             /\ PlainDecorators(iterStart, decl.Name - 2) =>
                  node.Decorators = WrittenDecorators(iterStart, decl.Name - 2)]_vars

DecoratedHandlerWithNestedBody ==
    /\ pc = "top"
    /\ Len(statements) = 1
    /\ statements[1].kind = "HandlerDecl"
    /\ ~statements[1].isNil
    /\ Len(statements[1].val.Parameters) = 2
    /\ Len(statements[1].val.Decorators) = 2
    /\ KindAt(pos - 1) = RBRACE
    /\ KindAt(pos - 2) = RBRACE
    /\ KindAt(pos - 3) = LBRACE

(* C19: a function declaration consumes the tokens up to the closing brace *)
(* matching the opening brace of its own body: the depth counted during    *)
(* the skip never goes below zero, and no token of a declaration that      *)
(* follows the function is consumed as part of it.                         *)
FunctionConsumesItsOwnBody ==
    [][pc = "funcBody" =>
         /\ braceCount' >= 0
         /\ pc' = "top" =>
              /\ pos = MatchingClose(FirstOf(LBRACE, decl.Name))
              /\ \A k \in (decl.Name + 1)..pos :
                   Depth(decl.Name, k - 1) = 0 =>
                     KindAt(k) \notin {STRUCT, PAGE, HANDLER, AT}]_vars

(* The literal kinds of a decorator argument.                              *)
IsLiteral(k) == KindAt(k) \in {STRING_LIT, INT, FLOAT, IDENT}

(* The first tokens of the comma-separated items among the tokens from..to *)
ItemStarts(from, to) == { k \in from..to : k = from \/ KindAt(k - 1) = COMMA }

BareItems(from, to) ==
    { k \in ItemStarts(from, to) : IsLiteral(k) /\ (k = to \/ KindAt(k + 1) = COMMA) }

PairItems(from, to) ==
    { k \in ItemStarts(from, to) :
        /\ IsLiteral(k) /\ KindAt(k + 1) = COLON /\ k + 2 <= to /\ IsLiteral(k + 2)
        /\ (k + 2 = to \/ KindAt(k + 3) = COMMA) }

(* C20: when a decorator's argument list is not closed before the end of   *)
(* input, a diagnostic with the position is recorded, the run of           *)
(* decorators stops there and the decorators parsed before are still       *)
(* returned; in a well-formed list each bare literal is appended to Args   *)
(* in order and each `literal : literal` pair is recorded in KVArgs.       *)
DecoratorArgumentsAndMissingParen ==
    [][/\ (pc = "decArgs" /\ pc' = "afterDecorators") =>
            /\ curTokenIs(EOF)
            /\ Len(errors') = Len(errors) + 1
            /\ errors'[Len(errors')].Line = curToken.Line
            /\ errors'[Len(errors')].Column = curToken.Column
            /\ errors'[Len(errors')].Msg = "expected ')' after decorator arguments"
            /\ pos' = pos
            /\ decorators' = decorators
            /\ (ctx = "stmt" /\ PlainDecorators(iterStart, decorator.Name - 2)) =>
                 decorators' = WrittenDecorators(iterStart, decorator.Name - 2)
       /\ (pc = "decArgs" /\ pc' = "decorators"
           /\ ItemStarts(decorator.Name + 2, pos - 1)
                = BareItems(decorator.Name + 2, pos - 1)
                  \cup PairItems(decorator.Name + 2, pos - 1)
           /\ KindAt(pos - 1) # COMMA) =>
            LET d == decorators'[Len(decorators')]
            IN  /\ Len(decorators') = Len(decorators) + 1
                /\ d.Name = decorator.Name
                /\ Range(d.Args) = { Lit(k) : k \in BareItems(decorator.Name + 2, pos - 1) }
                /\ \A i, j \in DOMAIN d.Args : i < j => d.Args[i] < d.Args[j]
                /\ DOMAIN d.KVArgs
                     = { Lit(k) : k \in PairItems(decorator.Name + 2, pos - 1) }
                /\ \A k \in PairItems(decorator.Name + 2, pos - 1) :
                     d.KVArgs[Lit(k)] = Lit(k + 2)]_vars

RunAbortedAfterDecoratorWithArguments ==
    /\ pc = "afterDecorators"
    /\ curTokenIs(EOF)
    /\ Len(errors) = 1
    /\ errors[1].Msg = "expected ')' after decorator arguments"
    /\ Len(decorators) = 1
    /\ decorators[1].Args = <<Lit(4)>>
    /\ DOMAIN decorators[1].KVArgs = {Lit(6)}
    /\ decorators[1].KVArgs[Lit(6)] = Lit(8)

----------------------------------------------------------------------------
(* Properties of the order of the generated functions.                     *)

(* The CRUD function a section holds, for either generator.                *)
CrudRole(sec) ==
    CASE sec.sec \in {"init_table", "crud_init_table.tmpl"} -> "init-table"
      [] sec.sec \in {"create", "crud_create.tmpl"} -> "create"
      [] sec.sec \in {"find", "crud_find.tmpl"} -> "find-by-id"
      [] sec.sec \in {"all", "crud_all.tmpl"} -> "list-all"
      [] sec.sec \in {"delete", "crud_delete.tmpl"} -> "delete"
      [] OTHER -> "none"

IsCrud(sec) == CrudRole(sec) # "none"

CrudBlocks(out) ==
    [i \in DOMAIN SelectSeq(out, IsCrud) |->
       [struct |-> IF "data" \in DOMAIN SelectSeq(out, IsCrud)[i]
                   THEN SelectSeq(out, IsCrud)[i].data.StructName
                   ELSE SelectSeq(out, IsCrud)[i].struct,
        role |-> CrudRole(SelectSeq(out, IsCrud)[i])]]

FixedCrudOrder == <<"init-table", "create", "find-by-id", "list-all", "delete">>

(* C21: the CRUD functions of each struct are emitted in the order         *)
(* init-table, create, find-by-id, list-all, delete, and the blocks of      *)
(* different structs follow the structs' declaration order.                *)
CrudInFixedOrder ==
    calls > 0 =>
      CrudBlocks(lastCall.out)
        = [i \in 1..(5 * Len(StructNamesOf(lastCall.prog))) |->
             [struct |-> StructNamesOf(lastCall.prog)[((i - 1) \div 5) + 1],
              role |-> FixedCrudOrder[((i - 1) % 5) + 1]]]

----------------------------------------------------------------------------
(* Properties of the generated web pages and routes.                       *)

IsRenderPage(sec) == sec.sec = "render_page"

(* The field of struct s with the given name.                              *)
FieldNamed(s, name) == CHOOSE f \in Range(s.Fields) : f.Name = name

CarriesRequired(field) ==
    \E i \in DOMAIN field.Decorators : field.Decorators[i].Name = "required"

(* C22: in the create-form the control of a field is marked required       *)
(* exactly when the field carries a `required` decorator, whatever the     *)
(* control's input kind.                                                   *)
RequiredFollowsDecorator ==
    \A sec \in Range(gen.output) :
      IsRenderPage(sec) =>
        \A k \in DOMAIN sec.form :
          \A inp \in Range(sec.form[k].inputs) :
            inp.required <=> CarriesRequired(FieldNamed(gen.structs[1], inp.name))

IsHandleRequest(sec) == sec.sec = "handle_request"

(* A request: its method and its URL, the URL written as a route path      *)
(* followed by further characters (none for the path itself).              *)
Requests(table) ==
    [method : {"GET", "POST", "PUT"},
     path : {<<table, "/create">>, <<table, "/delete">>, <<<<>>, "/">>},
     rest : {<<>>, <<"d">>}]

(* The test the emitted code makes for a route: strcmp for an exact match, *)
(* strncmp over the length of the path for a prefix match.                 *)
RouteMatches(route, req) ==
    /\ req.method = route.method
    /\ req.path = route.path
    /\ route.match = "exact" => req.rest = <<>>

(* What handle_request, as emitted, does with a request: the body of the   *)
(* first if-statement whose test holds, else the 404 response.             *)
Answer(routes, req) ==
    IF \E i \in DOMAIN routes : RouteMatches(routes[i], req)
    THEN routes[CHOOSE i \in DOMAIN routes :
                  /\ RouteMatches(routes[i], req)
                  /\ \A j \in 1..(i - 1) : ~RouteMatches(routes[j], req)].does
    ELSE <<"not_found">>

FirstStruct(prog) == SelectSeq(prog, IsStruct)[1].val

(* C23: the request-dispatch function tests POST <table>/create, then GET  *)
(* <table>/delete, then GET /, a request being answered by the first route *)
(* it matches and answered not-found exactly when its method and URL are   *)
(* none of the three; the table is the derived name of the first declared  *)
(* struct, and no other struct has a route.                                *)
RoutesInFixedOrder ==
    \A sec \in Range(lastCall.out) :
      IsHandleRequest(sec) =>
        LET t == TableNameOf(FirstStruct(lastCall.prog))
        IN  /\ [i \in DOMAIN sec.routes |-> <<sec.routes[i].method, sec.routes[i].path>>]
                 = << <<"POST", <<t, "/create">>>>, <<"GET", <<t, "/delete">>>>,
                      <<"GET", <<<<>>, "/">>>> >>
            /\ \A i \in DOMAIN sec.routes :
                 Len(sec.routes[i].does) = 2 /\ i < 3 =>
                   sec.routes[i].does[2] = FirstStruct(lastCall.prog).Name
            /\ \A req \in Requests(t) :
                 Answer(sec.routes, req) = <<"not_found">>
                   <=> ~(/\ req.rest = <<>>
                         /\ <<req.method, req.path>>
                              \in {<<"POST", <<t, "/create">>>>, <<"GET", <<t, "/delete">>>>,
                                   <<"GET", <<<<>>, "/">>>>})

----------------------------------------------------------------------------
(* Properties of the lexer's comments.                                     *)

(* The 0-based position just after the comment that starts at p: the line  *)
(* break that ends a line comment, the position after the first closing    *)
(* mark of a block comment, or the end of the input.                       *)
CommentEnd(p) ==
    LET ends == IF input[p + 2] = "/"
                THEN { k \in p..(Len(input) - 1) : input[k + 1] = "\n" }
                ELSE { k + 2 : k \in { j \in (p + 2)..(Len(input) - 2) :
                                         input[j + 1] = "*" /\ input[j + 2] = "/" } }
    IN  IF ends = {} THEN Len(input) ELSE CHOOSE e \in ends : \A x \in ends : e <= x

(* The lexer after n characters have been read as white space is read.     *)
RECURSIVE readTimes(_, _)
readTimes(l, n) == IF n = 0 THEN l ELSE readTimes(readChar(l), n - 1)

AtComment(l) ==
    l.position < Len(input) /\ l.ch = "/" /\ peekChar(l) \in {"/", "*"}

(* C24: no token is produced from comment text: a line comment up to the   *)
(* end of the line and a block comment up to the first closing mark (to    *)
(* the end of input if there is none) are skipped, and the token returned  *)
(* after a comment is the token, with the line and column, that is         *)
(* returned when the comment is white space of the same shape.             *)
CommentsAreWhitespace ==
    [][AtComment(skipWhitespace(lexer)) =>
         LET l == skipWhitespace(lexer)
             after == lexNextToken(readTimes(l, CommentEnd(l.position) - l.position))
         IN  tok' = after.tok /\ lexer' = after.l]_vars

----------------------------------------------------------------------------
(* Properties relating the generated functions of one struct.              *)

IsCreate(sec) == sec.sec = "create"

(* C25: the argument list of the create call in the request-dispatch       *)
(* function has the same fields, in the same order and number, as the      *)
(* parameter list of the create function emitted for that struct.          *)
CreateCallMatchesCreateFunction ==
    \A sec \in Range(gen.output) :
      IsHandleRequest(sec) =>
        \A c \in Range(gen.output) :
          (IsCreate(c) /\ c.struct = sec.struct) => sec.createArgs = NameSeq(c.params)

(* C26: in the create function every field of the returned record is       *)
(* populated from the last-insert row identifier or from a variable that   *)
(* is one of the function's parameters.                                    *)
PopulatedFromParameters ==
    \A sec \in Range(gen.output) :
      IsCreate(sec) =>
        \A p \in Range(sec.populate) :
          p.from = <<"last_insert_id">> \/ p.from[2] \in Names(sec.params)

(* C27: in the create function every placeholder of the INSERT statement   *)
(* receives exactly one bind: for each inserted field, whatever its type,  *)
(* one bind call whose 1-based index is the field's position in the INSERT *)
(* column list.                                                            *)
EveryPlaceholderIsBound ==
    \A sec \in Range(gen.output) :
      IsCreate(sec) =>
        [i \in DOMAIN sec.binds |-> <<sec.binds[i].index, sec.binds[i].name>>]
          = [i \in 1..sec.placeholders |-> <<i, sec.insertColumns[i]>>]

IsInitTable(sec) == sec.sec = "init_table"

(* C28: for every non-array field the find-by-id and list-all functions    *)
(* each have one column read into the field, with the field's 0-based      *)
(* position in the CREATE TABLE column list of the same struct as column   *)
(* index, whatever the field's type.                                       *)
ColumnReadsFollowSchema ==
    \A sec \in Range(gen.output) :
      IsInitTable(sec) =>
        \A r \in Range(gen.output) :
          (r.sec \in {"find", "all"} /\ r.struct = sec.struct) =>
            [i \in DOMAIN r.reads |-> <<r.reads[i].name, r.reads[i].colIndex>>]
              = [j \in DOMAIN sec.columns |-> <<sec.columns[j].name, j - 1>>]

(* C29: in web-mode output every function referred to is defined: the      *)
(* request-dispatch function the web entry point registers is emitted for  *)
(* every web-mode Program, and the page-render function the / route calls  *)
(* is emitted whenever that route is.                                      *)
ReferencedFunctionsAreDefined ==
    /\ \A sec \in Range(gen.output) :
         sec.sec = "web_main" =>
           \E h \in Range(gen.output) : h.sec = sec.handler
    /\ \A sec \in Range(gen.output) :
         IsHandleRequest(sec) =>
           \A r \in Range(sec.routes) :
             r.does[1] = "render" =>
               \E page \in Range(gen.output) : IsRenderPage(page) /\ page.page = r.does[2]

----------------------------------------------------------------------------
(* Properties of struct parsing.                                           *)

(* C30: the fields of a parsed struct come only from tokens between the    *)
(* struct's opening brace and its matching closing brace: struct parsing   *)
(* stops at the struct's own closing brace, also after a field without its *)
(* semicolon or with a malformed type or name, and takes no token or field *)
(* of a declaration that follows.                                          *)
StructStopsAtOwnBrace ==
    [][(pc = "fields" /\ pc' = "top") =>
         /\ pos = MatchingClose(decl.Name + 1)
         /\ \A f \in Range(decl.Fields) : f.Name < MatchingClose(decl.Name + 1)]_vars

====
